---------------------------- MODULE Spec2Model ----------------------------
(***************************************************************************)
(* A model of the AlgoChat TypeScript library (CorvidLabs/ts-algochat):    *)
(* the PSK replay-window state, the two envelope codecs, the standard and  *)
(* PSK encryptors/decryptors, key discovery, and the send queue with its   *)
(* sync manager.                                                           *)
(*                                                                         *)
(* The module holds several specifications, one per component.  Each one   *)
(* moves only its own variables; the other variables keep their initial    *)
(* value.                                                                  *)
(***************************************************************************)
EXTENDS Integers, Sequences, FiniteSets, TLC

VARIABLES
    state,          \* PSKState: sendCounter, peerLastCounter, seenCounters
    recorded,       \* history: every counter ever passed to recordReceive
    lastValidate,   \* the last validateCounter call on `state` and its result
    sentCounters,   \* history: the counters advanceSendCounter returned, in order
    pskCall,        \* the last PSK state call: the state object passed in, before and after
    srcEnvelope,    \* the envelope last handed to an encoder (or NoEnvelope)
    note,           \* the note bytes at hand: an encoder's output or ledger bytes
    decoded,        \* the outcome of the last decoder call on `note`
    rng,            \* how many values the random source has given so far
    sealed,         \* the last encryptor call: its arguments and what it returned
    opened,         \* the last decryptor call on the sealed envelope
    ledger,         \* the transactions the indexer returns, in its order
    found,          \* the last key discovery call and what it returned
    messages,       \* SendQueue.messages: the pending messages, in queue order
    manager,        \* SyncManager: isOnline, state, syncTimer, conversations
    sending,        \* the processQueue loops awaiting a send, by message
    fetching,       \* how many sync() calls await their fetch of messages
    lastCall,       \* the call just made, if setOnline ran retryFailed or queueMessage threw
    derived,        \* the last derivePSKAtCounter call: its arguments and the key returned
    channel,        \* an envelope on its way: as encryptMessage made it and as it arrives
    received,       \* the decryptMessage call on the envelope that arrived
    aeadLog,        \* history: the encryptor calls, each with its envelope and the key and nonce of its AEAD encryptions
    conversation,   \* Conversation._messages of one Conversation
    storage,        \* the messages of the storage InMemoryMessageCache, by participant
    cache,          \* the cache InMemoryMessageCache: its conversations and its messageIndex
    lastInsert,     \* which object the run works on, and the last append or merge call on it
    exchange,       \* a PSK exchange URI: how it came about, and what parsePSKExchangeURI made of it
    indexed,        \* the chat transactions with one participant that the indexer holds, as messages
    synced,         \* the Conversation with that participant: _messages and lastFetchedRound
    fetchCalls,     \* the syncConversation calls awaiting fetchMessages, with what it will return
    listener        \* history: the onMessagesReceived calls, each with the ids its merge added

pskVars == <<state, recorded, lastValidate, sentCounters, pskCall>>
codecVars == <<srcEnvelope, note, decoded>>
cryptoVars == <<rng, sealed, opened>>
discoveryVars == <<ledger, found>>
queueVars == <<messages, manager, sending, fetching, lastCall>>
ratchetVars == <<derived>>
channelVars == <<channel, received>>
aeadVars == <<aeadLog>>
storeVars == <<conversation, storage, cache, lastInsert>>
exchangeVars == <<exchange>>
syncVars == <<indexed, synced, fetchCalls, listener>>

vars == <<pskVars, codecVars, cryptoVars, discoveryVars, queueVars, ratchetVars, channelVars, aeadVars, storeVars, exchangeVars, syncVars>>

\* What each component leaves alone.
notPSK == <<codecVars, cryptoVars, discoveryVars, queueVars, ratchetVars, channelVars, aeadVars, storeVars, exchangeVars, syncVars>>
notCodec == <<pskVars, cryptoVars, discoveryVars, queueVars, ratchetVars, channelVars, aeadVars, storeVars, exchangeVars, syncVars>>
notCrypto == <<pskVars, codecVars, discoveryVars, queueVars, ratchetVars, channelVars, aeadVars, storeVars, exchangeVars, syncVars>>
notDiscovery == <<pskVars, codecVars, cryptoVars, queueVars, ratchetVars, channelVars, aeadVars, storeVars, exchangeVars, syncVars>>
notQueue == <<pskVars, codecVars, cryptoVars, discoveryVars, ratchetVars, channelVars, aeadVars, storeVars, exchangeVars, syncVars>>
notRatchet == <<pskVars, codecVars, cryptoVars, discoveryVars, queueVars, channelVars, aeadVars, storeVars, exchangeVars, syncVars>>
notChannel == <<pskVars, codecVars, cryptoVars, discoveryVars, queueVars, ratchetVars, aeadVars, storeVars, exchangeVars, syncVars>>
notAead == <<pskVars, codecVars, cryptoVars, discoveryVars, queueVars, ratchetVars, channelVars, storeVars, exchangeVars, syncVars>>
notStore == <<pskVars, codecVars, cryptoVars, discoveryVars, queueVars, ratchetVars, channelVars, aeadVars, exchangeVars, syncVars>>
notExchange == <<pskVars, codecVars, cryptoVars, discoveryVars, queueVars, ratchetVars, channelVars, aeadVars, storeVars, syncVars>>
notSync == <<pskVars, codecVars, cryptoVars, discoveryVars, queueVars, ratchetVars, channelVars, aeadVars, storeVars, exchangeVars>>

(***************************************************************************)
(* Bounds of the model.                                                    *)
(***************************************************************************)
\* Received counters are taken around the multiples 0 .. MaxJumps of the window.
MaxJumps == 2
\* advanceSendCounter is called at most MaxSend times.
MaxSend == 2
\* Envelope fields are filled from the seeds 0 .. MaxSeed.
MaxSeed == 1
\* A ciphertext carries up to MaxExtra bytes besides its tag.
MaxExtra == 2
\* The ratchet is asked for the keys of the counters 0 .. MaxCounter.
MaxCounter == 201
\* Messages have the ids 1 .. MaxMessageId.
MaxMessageId == 2
\* The encryptors are called at most MaxSeals times in a row.
MaxSeals == 2
\* Messages are exchanged between the identities 1 .. MaxIdentity.
MaxIdentity == 2
\* The initial pre-shared keys are numbered 1 .. MaxPSK.
MaxPSK == 2
\* The indexer returns at most MaxTransactions transactions.
MaxTransactions == 2

(***************************************************************************)
(* PSK replay-window state (src/src/psk/state.ts, src/src/psk/types.ts)    *)
(***************************************************************************)
COUNTER_WINDOW == 200

\* Counters handed to recordReceive: both sides of every window edge.
CounterInputs == { k * COUNTER_WINDOW + d : k \in 0..MaxJumps, d \in 0..1 }

\* Counters handed to validateCounter: the above, one past the last upper
\* edge, and a negative number (the parameter is a plain number).
ProbeInputs == CounterInputs \cup { (MaxJumps + 1) * COUNTER_WINDOW + 2, -1 }

Max(a, b) == IF a >= b THEN a ELSE b

createPSKState ==
    [ sendCounter |-> 0, peerLastCounter |-> 0, seenCounters |-> {} ]

\* Mutant: the lower edge of the window is not checked.
validateCounterNoLower(st, counter) ==
    IF counter \in st.seenCounters
    THEN FALSE
    ELSE counter <= st.peerLastCounter + COUNTER_WINDOW

\* Mutant: the set of seen counters is not consulted.
validateCounterNoSeen(st, counter) ==
    LET lower == st.peerLastCounter - COUNTER_WINDOW
        upper == st.peerLastCounter + COUNTER_WINDOW
    IN  counter >= lower /\ counter <= upper

validateCounter(st, counter) ==
    IF counter \in st.seenCounters
    THEN FALSE
    ELSE LET lower == st.peerLastCounter - COUNTER_WINDOW
             upper == st.peerLastCounter + COUNTER_WINDOW
         IN  counter >= lower /\ counter <= upper

\* Mutant: the last counter received becomes peerLastCounter.
recordReceiveLastWins(st, counter) ==
    [ sendCounter     |-> st.sendCounter,
      peerLastCounter |-> counter,
      seenCounters    |-> { seen \in st.seenCounters \cup {counter} :
                              ~(seen < counter - COUNTER_WINDOW) } ]

\* Mutant: nothing is pruned.
recordReceiveNoPrune(st, counter) ==
    [ sendCounter     |-> st.sendCounter,
      peerLastCounter |-> Max(st.peerLastCounter, counter),
      seenCounters    |-> st.seenCounters \cup {counter} ]

recordReceive(st, counter) ==
    LET newSeenCounters    == st.seenCounters \cup {counter}
        newPeerLastCounter == Max(st.peerLastCounter, counter)
        lowerBound         == newPeerLastCounter - COUNTER_WINDOW
    IN  [ sendCounter     |-> st.sendCounter,
          peerLastCounter |-> newPeerLastCounter,
          seenCounters    |-> { seen \in newSeenCounters : ~(seen < lowerBound) } ]

\* Mutant: the counter returned is the incremented one.
advanceSendCounterIncremented(st) ==
    [ counter |-> st.sendCounter + 1,
      state   |-> [ sendCounter     |-> st.sendCounter + 1,
                    peerLastCounter |-> st.peerLastCounter,
                    seenCounters    |-> st.seenCounters ] ]

advanceSendCounter(st) ==
    [ counter |-> st.sendCounter,
      state   |-> [ sendCounter     |-> st.sendCounter + 1,
                    peerLastCounter |-> st.peerLastCounter,
                    seenCounters    |-> st.seenCounters ] ]

\* The state object passed to a call, as its holder sees it after the call.
\* Mutant: recordReceive adds to and prunes state.seenCounters itself.
recordReceiveArgumentShared(st, counter) ==
    [ st EXCEPT !.seenCounters = recordReceive(st, counter).seenCounters ]

\* recordReceive adds to and deletes from a copy, new Set(state.seenCounters),
\* and assigns no field of state.
recordReceiveArgument(st, counter) == st

\* advanceSendCounter reads state.sendCounter and builds a new object with a
\* new Set; validateCounter only reads.
advanceSendCounterArgument(st) == st
validateCounterArgument(st, counter) == st

NoValidate == [ counter |-> -2, ok |-> FALSE, made |-> FALSE ]
NoPSKCall == [ op |-> "none", before |-> createPSKState, after |-> createPSKState ]

PSKIdle ==
    /\ state = createPSKState
    /\ recorded = {}
    /\ lastValidate = NoValidate
    /\ sentCounters = << >>
    /\ pskCall = NoPSKCall

(***************************************************************************)
(* Bytes and numbers                                                       *)
(*                                                                         *)
(* A Uint8Array is a sequence of numbers 0 .. 255; index i of the code is  *)
(* index i + 1 here.  A JavaScript number that may need all 32 bits is a   *)
(* record [hi, lo] standing for hi * 65536 + lo with lo in 0 .. 65535 (the *)
(* model checker's integers are 32-bit signed, so 2^31 .. 2^32 - 1 cannot  *)
(* be written as one integer); hi is negative for a negative number.       *)
(***************************************************************************)
Min(a, b) == IF a <= b THEN a ELSE b

\* new Uint8Array(n)
Zeros(n) == [ i \in 1..n |-> 0 ]

\* result.set(arr, offset)
SetAt(result, arr, offset) ==
    [ i \in 1..Len(result) |->
        IF offset < i /\ i <= offset + Len(arr) THEN arr[i - offset] ELSE result[i] ]

\* data.slice(from, to), both clamped to the length as Uint8Array.slice does
Slice(data, from, to) ==
    LET a == Min(from, Len(data))
        b == Max(a, Min(to, Len(data)))
    IN  [ i \in 1..(b - a) |-> data[a + i] ]

\* data.slice(from)
SliceFrom(data, from) == Slice(data, from, Len(data))

Wide(hi, lo) == [ hi |-> hi, lo |-> lo ]

\* x >>> 0 : ToUint32
ToUint32(x) == Wide(x.hi % 65536, x.lo)

\* ToInt32
ToInt32(x) ==
    LET h == x.hi % 65536
    IN  Wide(IF h >= 32768 THEN h - 65536 ELSE h, x.lo)

\* (x >>> k) & 0xff for k = 24, 16, 8, 0
ByteOf(x, k) ==
    LET u == ToUint32(x)
    IN  CASE k = 24 -> (u.hi \div 256) % 256
          [] k = 16 -> u.hi % 256
          [] k = 8  -> (u.lo \div 256) % 256
          [] k = 0  -> u.lo % 256

\* (b2 << 24) | (b3 << 16) | (b4 << 8) | b5 : an Int32
OrShifted(b2, b3, b4, b5) == ToInt32(Wide(b2 * 256 + b3, b4 * 256 + b5))

(***************************************************************************)
(* Protocol constants (src/src/models/types.ts, src/src/psk/types.ts)      *)
(***************************************************************************)
VERSION == 1
PROTOCOL_ID == 1
HEADER_SIZE == 126
TAG_SIZE == 16
MAX_PAYLOAD_SIZE == 882
PSK_VERSION == 1
PSK_PROTOCOL_ID == 2
PSK_HEADER_SIZE == 130
PSK_TAG_SIZE == 16
PSK_MAX_PAYLOAD_SIZE == 878

(***************************************************************************)
(* Standard envelope codec (src/unnamed/part_003)                          *)
(***************************************************************************)
DecodeError == [ ok |-> FALSE ]
Decoded(env) == [ ok |-> TRUE, env |-> env ]

encodeEnvelope(envelope) ==
    LET totalSize == 2 + 32 + 32 + 12 + 48 + Len(envelope.ciphertext)
        r0 == Zeros(totalSize)
        r1 == SetAt(r0, << envelope.version % 256 >>, 0)
        r2 == SetAt(r1, << envelope.protocolId % 256 >>, 1)
        r3 == SetAt(r2, envelope.senderPublicKey, 2)
        r4 == SetAt(r3, envelope.ephemeralPublicKey, 34)
        r5 == SetAt(r4, envelope.nonce, 66)
        r6 == SetAt(r5, envelope.encryptedSenderKey, 78)
    IN  SetAt(r6, envelope.ciphertext, 126)

\* Mutant: the minimum length is the header alone.
decodeEnvelopeHeaderOnly(data) ==
    IF Len(data) < 2 THEN DecodeError
    ELSE IF data[2] # PROTOCOL_ID THEN DecodeError
    ELSE IF data[1] # VERSION THEN DecodeError
    ELSE IF Len(data) < HEADER_SIZE THEN DecodeError
    ELSE Decoded([ version            |-> data[1],
                   protocolId         |-> data[2],
                   senderPublicKey    |-> Slice(data, 2, 34),
                   ephemeralPublicKey |-> Slice(data, 34, 66),
                   nonce              |-> Slice(data, 66, 78),
                   encryptedSenderKey |-> Slice(data, 78, 126),
                   ciphertext         |-> SliceFrom(data, 126) ])

decodeEnvelope(data) ==
    IF Len(data) < 2 THEN DecodeError
    ELSE LET version    == data[1]
             protocolId == data[2]
             minSize    == HEADER_SIZE + TAG_SIZE
         IN  IF protocolId # PROTOCOL_ID THEN DecodeError
             ELSE IF version # VERSION THEN DecodeError
             ELSE IF Len(data) < minSize THEN DecodeError
             ELSE Decoded([ version            |-> version,
                            protocolId         |-> protocolId,
                            senderPublicKey    |-> Slice(data, 2, 34),
                            ephemeralPublicKey |-> Slice(data, 34, 66),
                            nonce              |-> Slice(data, 66, 78),
                            encryptedSenderKey |-> Slice(data, 78, 126),
                            ciphertext         |-> SliceFrom(data, 126) ])

isChatMessage(data) ==
    Len(data) >= 2 /\ data[1] = VERSION /\ data[2] = PROTOCOL_ID

(***************************************************************************)
(* PSK envelope codec (src/src/psk/envelope.ts)                            *)
(***************************************************************************)
encodePSKEnvelope(envelope) ==
    LET totalSize == 2 + 4 + 32 + 32 + 12 + 48 + Len(envelope.ciphertext)
        r0 == Zeros(totalSize)
        r1 == SetAt(r0, << envelope.version % 256 >>, 0)
        r2 == SetAt(r1, << envelope.protocolId % 256 >>, 1)
        r3 == SetAt(r2, << ByteOf(envelope.ratchetCounter, 24),
                           ByteOf(envelope.ratchetCounter, 16),
                           ByteOf(envelope.ratchetCounter, 8),
                           ByteOf(envelope.ratchetCounter, 0) >>, 2)
        r4 == SetAt(r3, envelope.senderPublicKey, 6)
        r5 == SetAt(r4, envelope.ephemeralPublicKey, 38)
        r6 == SetAt(r5, envelope.nonce, 70)
        r7 == SetAt(r6, envelope.encryptedSenderKey, 82)
    IN  SetAt(r7, envelope.ciphertext, 130)

\* Mutant: the counter is left as the signed Int32 the bit operators give.
decodePSKEnvelopeSigned(data) ==
    IF Len(data) < 2 THEN DecodeError
    ELSE IF data[1] # PSK_VERSION THEN DecodeError
    ELSE IF data[2] # PSK_PROTOCOL_ID THEN DecodeError
    ELSE IF Len(data) < PSK_HEADER_SIZE + PSK_TAG_SIZE THEN DecodeError
    ELSE Decoded([ version            |-> data[1],
                   protocolId         |-> data[2],
                   ratchetCounter     |-> OrShifted(data[3], data[4], data[5], data[6]),
                   senderPublicKey    |-> Slice(data, 6, 38),
                   ephemeralPublicKey |-> Slice(data, 38, 70),
                   nonce              |-> Slice(data, 70, 82),
                   encryptedSenderKey |-> Slice(data, 82, 130),
                   ciphertext         |-> SliceFrom(data, 130) ])

decodePSKEnvelope(data) ==
    IF Len(data) < 2 THEN DecodeError
    ELSE LET version    == data[1]
             protocolId == data[2]
             minSize    == PSK_HEADER_SIZE + PSK_TAG_SIZE
         IN  IF version # PSK_VERSION THEN DecodeError
             ELSE IF protocolId # PSK_PROTOCOL_ID THEN DecodeError
             ELSE IF Len(data) < minSize THEN DecodeError
             ELSE LET ratchetCounter  == OrShifted(data[3], data[4], data[5], data[6])
                      unsignedCounter == ToUint32(ratchetCounter)
                  IN  Decoded([ version            |-> version,
                                protocolId         |-> protocolId,
                                ratchetCounter     |-> unsignedCounter,
                                senderPublicKey    |-> Slice(data, 6, 38),
                                ephemeralPublicKey |-> Slice(data, 38, 70),
                                nonce              |-> Slice(data, 70, 82),
                                encryptedSenderKey |-> Slice(data, 82, 130),
                                ciphertext         |-> SliceFrom(data, 130) ])

\* Mutant: only the version byte is looked at.
isPSKMessageVersionOnly(data) ==
    Len(data) >= 2 /\ data[1] = PSK_VERSION

isPSKMessage(data) ==
    Len(data) >= 2 /\ data[1] = PSK_VERSION /\ data[2] = PSK_PROTOCOL_ID

(***************************************************************************)
(* Inputs of the codecs                                                    *)
(***************************************************************************)
\* n bytes that differ from place to place, so that a field cut at the wrong
\* offset differs from the field written.
Ramp(n, seed) == [ i \in 1..n |-> (seed * 131 + i * 7) % 256 ]

FieldSeeds == 0..MaxSeed

\* Ciphertext lengths: the 16-byte tag and up to MaxExtra bytes of message.
CiphertextLens == { TAG_SIZE + k : k \in 0..MaxExtra }

StandardEnvelopes ==
    { [ version            |-> VERSION,
        protocolId         |-> PROTOCOL_ID,
        senderPublicKey    |-> Ramp(32, s),
        ephemeralPublicKey |-> Ramp(32, e + 3),
        nonce              |-> Ramp(12, e + 5),
        encryptedSenderKey |-> Ramp(48, s + 7),
        ciphertext         |-> Ramp(n, e + 11) ] :
      s \in FieldSeeds, e \in FieldSeeds, n \in CiphertextLens }

\* Ratchet counters over the whole range 0 .. 0xFFFFFFFF: every byte edge.
RatchetCounters ==
    { Wide(0, 0), Wide(0, 1), Wide(0, 255), Wide(0, 256), Wide(0, 65535),
      Wide(1, 0), Wide(255, 65535), Wide(256, 0), Wide(32767, 65535),
      Wide(32768, 0), Wide(65535, 65535) }

PSKEnvelopes ==
    { [ version            |-> PSK_VERSION,
        protocolId         |-> PSK_PROTOCOL_ID,
        ratchetCounter     |-> c,
        senderPublicKey    |-> Ramp(32, s),
        ephemeralPublicKey |-> Ramp(32, s + 3),
        nonce              |-> Ramp(12, s + 5),
        encryptedSenderKey |-> Ramp(48, s + 7),
        ciphertext         |-> Ramp(n, s + 11) ] :
      s \in FieldSeeds, c \in RatchetCounters, n \in CiphertextLens }

\* Bytes found on the ledger: every length around the decoders' thresholds
\* and every pair of leading bytes around the version and protocol numbers.
NoteLens ==
    0..3 \cup { m + d : m \in { HEADER_SIZE, HEADER_SIZE + TAG_SIZE,
                                PSK_HEADER_SIZE, PSK_HEADER_SIZE + PSK_TAG_SIZE },
                        d \in { -1, 0, 1 } }

HeadBytes == 0..3

RawNote(n, b0, b1) ==
    [ i \in 1..n |-> IF i = 1 THEN b0 ELSE IF i = 2 THEN b1 ELSE (i * 5) % 256 ]

RawNotes == { RawNote(n, b0, b1) : n \in NoteLens, b0 \in HeadBytes, b1 \in HeadBytes }

NoEnvelope == [ kind |-> "none" ]
NoNote == << >>
NoDecode == [ by |-> "none", ok |-> FALSE ]

CodecIdle ==
    /\ srcEnvelope = NoEnvelope
    /\ note = NoNote
    /\ decoded = NoDecode

(***************************************************************************)
(* Plaintexts and JSON member names, as UTF-16 code units                  *)
(***************************************************************************)
\* 'Hi'
TextHi == << 72, 105 >>
\* ''
TextEmpty == <<  >>
\* 'caf\xe9'
TextAccent == << 99, 97, 102, 233 >>
\* '\u20ac5'
TextEuro == << 8364, 53 >>
\* '\U0001f600!'
TextEmoji == << 55357, 56832, 33 >>
\* 'H\ud83d'
TextLoneSurrogate == << 72, 55357 >>
\* '\ude00i'
TextLoneLow == << 56832, 105 >>
\* '\ufeffHi'
TextBOM == << 65279, 72, 105 >>
\* '{Hi'
TextBrace == << 123, 72, 105 >>
\* '{"type":"key-publish"}'
TextKeyPublish == << 123, 34, 116, 121, 112, 101, 34, 58, 34, 107, 101, 121, 45, 112, 117, 98, 108, 105, 115, 104, 34, 125 >>
\* '{ "type" : "key-publish" }'
TextKeyPublishSpaced == << 123, 32, 34, 116, 121, 112, 101, 34, 32, 58, 32, 34, 107, 101, 121, 45, 112, 117, 98, 108, 105, 115, 104, 34, 32, 125 >>
\* '{"text":"Hi"}'
TextJsonText == << 123, 34, 116, 101, 120, 116, 34, 58, 34, 72, 105, 34, 125 >>
\* '{"text":1}'
TextJsonTextNumber == << 123, 34, 116, 101, 120, 116, 34, 58, 49, 125 >>
\* '{"a":"Hi"}'
TextJsonOther == << 123, 34, 97, 34, 58, 34, 72, 105, 34, 125 >>
\* '{"type":"Hi"}'
TextJsonTypeOther == << 123, 34, 116, 121, 112, 101, 34, 58, 34, 72, 105, 34, 125 >>
\* '{"text":"Hi","replyTo":{"txid":"T1","preview":"Yo"}}'
TextJsonReply == << 123, 34, 116, 101, 120, 116, 34, 58, 34, 72, 105, 34, 44, 34, 114, 101, 112, 108, 121, 84, 111, 34, 58, 123, 34, 116, 120, 105, 100, 34, 58, 34, 84, 49, 34, 44, 34, 112, 114, 101, 118, 105, 101, 119, 34, 58, 34, 89, 111, 34, 125, 125 >>
\* ' {"type":"key-publish"}'
TextSpaceKeyPublish == << 32, 123, 34, 116, 121, 112, 101, 34, 58, 34, 107, 101, 121, 45, 112, 117, 98, 108, 105, 115, 104, 34, 125 >>
\* '\uFEFF{"text":"Hi"}'
TextBOMJsonText == << 65279 >> \o TextJsonText
\* '\uFEFF{"type":"key-publish"}'
TextBOMKeyPublish == << 65279 >> \o TextKeyPublish
\* '{"type":"key-publish","text":"Hi"}'
TextKeyPublishWithText == << 123, 34, 116, 121, 112, 101, 34, 58, 34, 107, 101, 121, 45, 112, 117, 98, 108, 105, 115, 104, 34, 44, 34, 116, 101, 120, 116, 34, 58, 34, 72, 105, 34, 125 >>
\* 'type'
KeyType == << 116, 121, 112, 101 >>
\* 'text'
KeyText == << 116, 101, 120, 116 >>
\* 'replyTo'
KeyReplyTo == << 114, 101, 112, 108, 121, 84, 111 >>
\* 'txid'
KeyTxid == << 116, 120, 105, 100 >>
\* 'preview'
KeyPreview == << 112, 114, 101, 118, 105, 101, 119 >>
\* 'key-publish'
KeyPublishValue == << 107, 101, 121, 45, 112, 117, 98, 108, 105, 115, 104 >>
\* 'true'
LitTrue == << 116, 114, 117, 101 >>
\* 'false'
LitFalse == << 102, 97, 108, 115, 101 >>
\* 'null'
LitNull == << 110, 117, 108, 108 >>

(***************************************************************************)
(* Strings                                                                 *)
(*                                                                         *)
(* A JavaScript string is the sequence of its UTF-16 code units.           *)
(***************************************************************************)
IsHighSurrogate(u) == 55296 <= u /\ u <= 56319
IsLowSurrogate(u) == 56320 <= u /\ u <= 57343

\* The concatenation of pieces[lo .. hi], halving the range.
RECURSIVE ConcatRange(_, _, _)
ConcatRange(pieces, lo, hi) ==
    IF lo > hi THEN << >>
    ELSE IF lo = hi THEN pieces[lo]
    ELSE LET mid == (lo + hi) \div 2
         IN  ConcatRange(pieces, lo, mid) \o ConcatRange(pieces, mid + 1, hi)

ConcatAll(pieces) == ConcatRange(pieces, 1, Len(pieces))

\* The UTF-8 bytes of one code point.
CodePointBytes(cp) ==
    IF cp < 128 THEN << cp >>
    ELSE IF cp < 2048 THEN << 192 + (cp \div 64), 128 + (cp % 64) >>
    ELSE IF cp < 65536 THEN
        << 224 + (cp \div 4096), 128 + ((cp \div 64) % 64), 128 + (cp % 64) >>
    ELSE << 240 + (cp \div 262144), 128 + ((cp \div 4096) % 64),
            128 + ((cp \div 64) % 64), 128 + (cp % 64) >>

\* The bytes that code unit i of s contributes: a surrogate pair gives the
\* four bytes of its code point at the high surrogate and nothing at the low
\* one; an unpaired surrogate is replaced by U+FFFD.
EncodeUnitAt(s, i) ==
    LET u == s[i]
    IN  IF IsHighSurrogate(u) /\ i < Len(s) /\ IsLowSurrogate(s[i + 1])
        THEN CodePointBytes(65536 + (u - 55296) * 1024 + (s[i + 1] - 56320))
        ELSE IF IsLowSurrogate(u) /\ i > 1 /\ IsHighSurrogate(s[i - 1])
        THEN << >>
        ELSE IF IsHighSurrogate(u) \/ IsLowSurrogate(u)
        THEN CodePointBytes(65533)
        ELSE CodePointBytes(u)

\* Mutant: one byte per code unit (the string's length taken for its size).
TextEncodeOneBytePerUnit(s) == [ i \in 1..Len(s) |-> s[i] % 256 ]

\* new TextEncoder().encode(s)
TextEncode(s) == ConcatAll([ i \in 1..Len(s) |-> EncodeUnitAt(s, i) ])

IsContinuation(b) == 128 <= b /\ b <= 191

\* The length of the UTF-8 sequence that starts at byte j, 0 if none does.
\* (Overlong forms and encoded surrogates, which TextEncode never writes,
\* are not told apart from well-formed sequences.)
SequenceLen(data, j) ==
    LET b == data[j]
        cont(k) == j + k <= Len(data) /\ IsContinuation(data[j + k])
    IN  IF b < 128 THEN 1
        ELSE IF 194 <= b /\ b <= 223 /\ cont(1) THEN 2
        ELSE IF 224 <= b /\ b <= 239 /\ cont(1) /\ cont(2) THEN 3
        ELSE IF 240 <= b /\ b <= 244 /\ cont(1) /\ cont(2) /\ cont(3) THEN 4
        ELSE 0

\* The code units that byte j of data contributes.
DecodeByteAt(data, j) ==
    LET b == data[j]
        n == SequenceLen(data, j)
        covered == \E k \in 1..3 : j - k >= 1 /\ SequenceLen(data, j - k) > k
    IN  IF IsContinuation(b) /\ covered THEN << >>
        ELSE IF n = 0 THEN << 65533 >>
        ELSE IF n = 1 THEN << b >>
        ELSE IF n = 2 THEN << (b - 192) * 64 + (data[j + 1] - 128) >>
        ELSE IF n = 3 THEN
            << (b - 224) * 4096 + (data[j + 1] - 128) * 64 + (data[j + 2] - 128) >>
        ELSE LET cp == (b - 240) * 262144 + (data[j + 1] - 128) * 4096
                       + (data[j + 2] - 128) * 64 + (data[j + 3] - 128)
             IN  << 55296 + ((cp - 65536) \div 1024), 56320 + ((cp - 65536) % 1024) >>

\* new TextDecoder().decode(data): UTF-8, malformed bytes replaced, and a
\* leading byte order mark dropped (ignoreBOM is false by default).
TextDecode(data) ==
    LET units == ConcatAll([ j \in 1..Len(data) |-> DecodeByteAt(data, j) ])
    IN  IF Len(units) >= 1 /\ units[1] = 65279 THEN Tail(units) ELSE units

(***************************************************************************)
(* JSON.parse                                                              *)
(*                                                                         *)
(* Objects, strings with their escapes, integers and the literals true,    *)
(* false and null, with white space between tokens.  Arrays, fractions and *)
(* exponents are not modelled: texts that hold them count as malformed,    *)
(* and the plaintexts of the model hold none.                              *)
(***************************************************************************)
JValue(t, str, mem) == [ t |-> t, str |-> str, mem |-> mem ]
JUndefined == JValue("undefined", << >>, << >>)
JString(str) == JValue("string", str, << >>)
JNumber(digits) == JValue("number", digits, << >>)
JLiteral(word) == JValue("literal", word, << >>)
JObject(mem) == JValue("object", << >>, mem)

ParseFail == [ ok |-> FALSE, val |-> JUndefined, pos |-> 0 ]
Parsed(val, pos) == [ ok |-> TRUE, val |-> val, pos |-> pos ]

IsWhitespace(c) == c \in { 32, 9, 10, 13 }
IsDigit(c) == 48 <= c /\ c <= 57

RECURSIVE SkipWhitespace(_, _)
SkipWhitespace(s, i) ==
    IF i <= Len(s) /\ IsWhitespace(s[i]) THEN SkipWhitespace(s, i + 1) ELSE i

LeastOf(S) == CHOOSE j \in S : \A k \in S : j <= k

\* The value of a hexadecimal digit, or -1.
HexValue(c) ==
    IF 48 <= c /\ c <= 57 THEN c - 48
    ELSE IF 97 <= c /\ c <= 102 THEN c - 87
    ELSE IF 65 <= c /\ c <= 70 THEN c - 55
    ELSE -1

\* The code unit that the escape letter c stands for, or -1.
SimpleEscape(c) ==
    IF c \in { 34, 92, 47 } THEN c
    ELSE IF c = 98 THEN 8
    ELSE IF c = 102 THEN 12
    ELSE IF c = 110 THEN 10
    ELSE IF c = 114 THEN 13
    ELSE IF c = 116 THEN 9
    ELSE -1

Unescaped(str) == [ ok |-> TRUE, str |-> str ]
BadEscape == [ ok |-> FALSE, str |-> << >> ]

\* A code unit before the rest of a body, unless the rest has a bad escape.
Prepend(unit, rest) ==
    IF rest.ok THEN Unescaped(<< unit >> \o rest.str) ELSE BadEscape

\* The code units of a string body from position k on, escapes resolved.
RECURSIVE Unescape(_, _)
Unescape(body, k) ==
    IF k > Len(body) THEN Unescaped(<< >>)
    ELSE IF body[k] < 32 THEN BadEscape
    ELSE IF body[k] # 92
    THEN CHOOSE r \in { Prepend(body[k], rest) : rest \in { Unescape(body, k + 1) } } : TRUE
    ELSE IF k = Len(body) THEN BadEscape
    ELSE IF body[k + 1] = 117
    THEN IF k + 5 > Len(body) \/ \E m \in 2..5 : HexValue(body[k + m]) < 0
         THEN BadEscape
         ELSE CHOOSE r \in { Prepend(HexValue(body[k + 2]) * 4096 + HexValue(body[k + 3]) * 256
                                     + HexValue(body[k + 4]) * 16 + HexValue(body[k + 5]), rest) :
                                 rest \in { Unescape(body, k + 6) } } : TRUE
    ELSE IF SimpleEscape(body[k + 1]) < 0 THEN BadEscape
    ELSE CHOOSE r \in { Prepend(SimpleEscape(body[k + 1]), rest) :
                            rest \in { Unescape(body, k + 2) } } : TRUE

\* How many backslashes stand directly before s[j], after the opening quote s[i].
BackslashRun(s, i, j) ==
    LET runs == { k \in 0..(j - i - 1) : \A m \in 1..k : s[j - m] = 92 }
    IN  CHOOSE k \in runs : \A other \in runs : other <= k

\* The string with the given body (the code units between its quotes), read up
\* to position next.
StringWithBody(body, next) ==
    IF \A k \in 1..Len(body) : body[k] >= 32 /\ body[k] # 92
    THEN Parsed(JString(body), next)
    ELSE CHOOSE r \in { IF str.ok THEN Parsed(JString(str.str), next) ELSE ParseFail :
                        str \in { Unescape(body, 1) } } : TRUE

\* A string whose opening quote is s[i]: it ends at the first quote that no
\* backslash escapes.  (The end and the body are bound as values, to be
\* computed once.)
ParseString(s, i) ==
    LET ends == { j \in (i + 1)..Len(s) : s[j] = 34 /\ BackslashRun(s, i, j) % 2 = 0 }
    IN  IF ends = {} THEN ParseFail
        ELSE CHOOSE r \in { StringWithBody(body, i + Len(body) + 2) :
                                body \in { SubSeq(s, i + 1, j - 1) : j \in { LeastOf(ends) } } } : TRUE

\* An integer that starts at s[i].
ParseNumber(s, i) ==
    LET start == IF s[i] = 45 THEN i + 1 ELSE i
        stops == { j \in start..(Len(s) + 1) : j = Len(s) + 1 \/ ~IsDigit(s[j]) }
        stop == LeastOf(stops)
    IN  IF stop = start THEN ParseFail
        ELSE IF s[start] = 48 /\ stop > start + 1 THEN ParseFail
        ELSE Parsed(JNumber(SubSeq(s, i, stop - 1)), stop)

StartsWithAt(s, i, word) ==
    i + Len(word) - 1 <= Len(s) /\ SubSeq(s, i, i + Len(word) - 1) = word

ParseLiteral(s, i) ==
    IF StartsWithAt(s, i, LitTrue) THEN Parsed(JLiteral(LitTrue), i + 4)
    ELSE IF StartsWithAt(s, i, LitFalse) THEN Parsed(JLiteral(LitFalse), i + 5)
    ELSE IF StartsWithAt(s, i, LitNull) THEN Parsed(JLiteral(LitNull), i + 4)
    ELSE ParseFail

RECURSIVE ParseValue(_, _)
RECURSIVE ParseMembers(_, _, _)

ParseValue(s, i0) ==
    LET i == SkipWhitespace(s, i0)
    IN  IF i > Len(s) THEN ParseFail
        ELSE IF s[i] = 123 THEN
            LET j == SkipWhitespace(s, i + 1)
            IN  IF j <= Len(s) /\ s[j] = 125
                THEN Parsed(JObject(<< >>), j + 1)
                ELSE ParseMembers(s, j, << >>)
        ELSE IF s[i] = 34 THEN ParseString(s, i)
        ELSE IF s[i] = 45 \/ IsDigit(s[i]) THEN ParseNumber(s, i)
        ELSE ParseLiteral(s, i)

\* The members of an object from s[i] on, acc being those already read.
ParseMembers(s, i, acc) ==
    IF i > Len(s) \/ s[i] # 34 THEN ParseFail
    ELSE LET k == ParseString(s, i)
         IN  IF ~k.ok THEN ParseFail
             ELSE LET c == SkipWhitespace(s, k.pos)
                  IN  IF c > Len(s) \/ s[c] # 58 THEN ParseFail
                      ELSE LET v == ParseValue(s, c + 1)
                           IN  IF ~v.ok THEN ParseFail
                               ELSE LET d == SkipWhitespace(s, v.pos)
                                        acc2 == Append(acc, << k.val.str, v.val >>)
                                    IN  IF d > Len(s) THEN ParseFail
                                        ELSE IF s[d] = 125 THEN Parsed(JObject(acc2), d + 1)
                                        ELSE IF s[d] = 44
                                        THEN ParseMembers(s, SkipWhitespace(s, d + 1), acc2)
                                        ELSE ParseFail

\* JSON.parse(text): ok is false where it throws SyntaxError.
JSONParse(text) ==
    LET r == ParseValue(text, 1)
    IN  IF r.ok /\ SkipWhitespace(text, r.pos) = Len(text) + 1 THEN r ELSE ParseFail

\* obj.key and obj?.key on a parsed value: the last member of that name.
Member(obj, key) ==
    IF obj.t # "object" THEN JUndefined
    ELSE LET idx == { i \in 1..Len(obj.mem) : obj.mem[i][1] = key }
         IN  IF idx = {} THEN JUndefined
             ELSE obj.mem[CHOOSE i \in idx : \A k \in idx : k <= i][2]

(***************************************************************************)
(* JSON.stringify of strings and of the reply payload object               *)
(***************************************************************************)
\* The lower-case hexadecimal digit of n.
HexDigit(n) == IF n < 10 THEN 48 + n ELSE 87 + n

UnicodeEscape(u) ==
    << 92, 117, HexDigit(u \div 4096), HexDigit((u \div 256) % 16),
       HexDigit((u \div 16) % 16), HexDigit(u % 16) >>

\* What code unit i of str becomes inside a JSON string.
QuoteUnitAt(str, i) ==
    LET u == str[i]
    IN  IF u = 34 THEN << 92, 34 >>
        ELSE IF u = 92 THEN << 92, 92 >>
        ELSE IF u = 8 THEN << 92, 98 >>
        ELSE IF u = 12 THEN << 92, 102 >>
        ELSE IF u = 10 THEN << 92, 110 >>
        ELSE IF u = 13 THEN << 92, 114 >>
        ELSE IF u = 9 THEN << 92, 116 >>
        ELSE IF u < 32 THEN UnicodeEscape(u)
        ELSE IF IsHighSurrogate(u) /\ i < Len(str) /\ IsLowSurrogate(str[i + 1]) THEN << u >>
        ELSE IF IsLowSurrogate(u) /\ i > 1 /\ IsHighSurrogate(str[i - 1]) THEN << u >>
        ELSE IF IsHighSurrogate(u) \/ IsLowSurrogate(u) THEN UnicodeEscape(u)
        ELSE << u >>

\* JSON.stringify(str)
QuoteJSONString(str) ==
    << 34 >> \o ConcatAll([ i \in 1..Len(str) |-> QuoteUnitAt(str, i) ]) \o << 34 >>

\* JSON.stringify({ text, replyTo: { txid, preview } })
StringifyReply(text, txid, preview) ==
    << 123 >> \o QuoteJSONString(KeyText) \o << 58 >> \o QuoteJSONString(text)
    \o << 44 >> \o QuoteJSONString(KeyReplyTo) \o << 58, 123 >>
    \o QuoteJSONString(KeyTxid) \o << 58 >> \o QuoteJSONString(txid)
    \o << 44 >> \o QuoteJSONString(KeyPreview) \o << 58 >> \o QuoteJSONString(preview)
    \o << 125, 125 >>

(***************************************************************************)
(* Payload classification (src/unnamed/part_007, lines 259-300)            *)
(***************************************************************************)
\* Mutant: every JSON object counts as a key-publish payload.
isKeyPublishPayloadAnyObject(data) ==
    IF Len(data) = 0 \/ data[1] # 123 THEN FALSE
    ELSE JSONParse(TextDecode(data)).ok

isKeyPublishPayload(data) ==
    IF Len(data) = 0 \/ data[1] # 123 THEN FALSE
    ELSE LET json == JSONParse(TextDecode(data))
         IN  IF json.ok
             THEN Member(json.val, KeyType) = JString(KeyPublishValue)
             ELSE FALSE

Content(text, replyToId, replyToPreview) ==
    [ kind |-> "content", text |-> text,
      replyToId |-> replyToId, replyToPreview |-> replyToPreview ]

parseMessagePayload(data) ==
    LET text == TextDecode(data)
        json == JSONParse(text)
        plain == Content(text, JUndefined, JUndefined)
    IN  IF Len(text) >= 1 /\ text[1] = 123
        THEN IF json.ok /\ Member(json.val, KeyText).t = "string"
             THEN Content(Member(json.val, KeyText).str,
                          Member(Member(json.val, KeyReplyTo), KeyTxid),
                          Member(Member(json.val, KeyReplyTo), KeyPreview))
             ELSE plain
        ELSE plain

(***************************************************************************)
(* Cryptographic values                                                    *)
(*                                                                         *)
(* Keys, secrets, nonces and ciphertexts are terms [op, args, val]: what   *)
(* was computed, from which terms, with which numbers.  Two terms are the  *)
(* same bytes exactly when they are the same term (HKDF, X25519 and the    *)
(* random source are ideal: no collisions), X25519 agrees on both sides,   *)
(* and a ChaCha20-Poly1305 ciphertext opens exactly under the key and      *)
(* nonce that sealed it.                                                   *)
(***************************************************************************)
Term(op, args, val) == [ op |-> op, args |-> args, val |-> val ]

\* The bytes of a message: val holds them.
Bytes(data) == Term("bytes", << >>, data)

\* new TextEncoder().encode('<text>') for the fixed salts and info prefixes
Label(text) == Term(text, << >>, << >>)

\* an absent optional argument
Undefined == Term("undefined", << >>, << >>)

\* the 32-byte account seed of identity i, the 32-byte initial PSK number i
Seed(i) == Term("seed", << >>, << i >>)
InitialPSK(i) == Term("psk", << >>, << i >>)

\* Mutant: the random source gives the same value every time.
randomBytesRepeated(draw, n) == Term("random", << >>, << 0, n >>)

\* randomBytes(n) / randomPrivateKey(): the draw-th value the random source gives
randomBytes(draw, n) == Term("random", << >>, << draw, n >>)

\* hkdf(sha256, ikm, salt, info, 32)
hkdf(ikm, salt, info) == Term("hkdf", << ikm, salt, info >>, << >>)

\* x25519.getPublicKey(privateKey)
getPublicKey(privateKey) == Term("x25519-public", << privateKey >>, << >>)

\* x25519.getSharedSecret(privateKey, publicKey): the same secret for
\* (a, public(b)) and (b, public(a)).
x25519ECDH(privateKey, publicKey) ==
    IF publicKey.op = "x25519-public"
    THEN LET other == publicKey.args[1]
         IN  Term("x25519-shared",
                  CHOOSE p \in { << privateKey, other >>, << other, privateKey >> } : TRUE,
                  << >>)
    ELSE Term("x25519-shared-raw", << privateKey, publicKey >>, << >>)

uint8ArrayEquals(a, b) == a = b

concatBytes(arrays) == Term("concat", arrays, << >>)

\* chacha20poly1305(key, nonce).encrypt(plaintext)
AeadEncrypt(key, nonce, plaintext) == Term("aead", << key, nonce, plaintext >>, << >>)

\* Mutant: the tag is not checked against the nonce.
AeadDecryptAnyNonce(key, nonce, ciphertext) ==
    IF ciphertext.op = "aead" /\ ciphertext.args[1] = key
    THEN [ ok |-> TRUE, plaintext |-> ciphertext.args[3] ]
    ELSE [ ok |-> FALSE, plaintext |-> Undefined ]

\* Mutant: the tag is not checked against the key.
AeadDecryptAnyKey(key, nonce, ciphertext) ==
    IF ciphertext.op = "aead" /\ ciphertext.args[2] = nonce
    THEN [ ok |-> TRUE, plaintext |-> ciphertext.args[3] ]
    ELSE [ ok |-> FALSE, plaintext |-> Undefined ]

\* chacha20poly1305(key, nonce).decrypt(ciphertext): ok is false where it throws
AeadDecrypt(key, nonce, ciphertext) ==
    IF ciphertext.op = "aead" /\ ciphertext.args[1] = key /\ ciphertext.args[2] = nonce
    THEN [ ok |-> TRUE, plaintext |-> ciphertext.args[3] ]
    ELSE [ ok |-> FALSE, plaintext |-> Undefined ]

\* How many bytes a key, nonce or ciphertext has: HKDF is asked for 32, X25519 keys and secrets
\* have 32, and ChaCha20-Poly1305 appends its 16-byte tag to the plaintext.
RECURSIVE ByteLength(_)
ByteLength(t) ==
    IF t.op = "bytes" THEN Len(t.val)
    ELSE IF t.op = "random" THEN t.val[2]
    ELSE IF t.op = "aead" THEN ByteLength(t.args[3]) + 16
    ELSE IF t.op \in { "hkdf", "x25519-public", "x25519-shared", "seed", "psk" } THEN 32
    ELSE 0

(***************************************************************************)
(* Key derivation (src/unnamed/part_007, lines 1-61)                       *)
(***************************************************************************)
KEY_DERIVATION_SALT == Label("AlgoChat-v1-encryption")
KEY_DERIVATION_INFO == Label("x25519-key")

deriveEncryptionKeys(seed) ==
    LET encryptionSeed == hkdf(seed, KEY_DERIVATION_SALT, KEY_DERIVATION_INFO)
        privateKey == encryptionSeed
        publicKey == getPublicKey(privateKey)
    IN  [ privateKey |-> privateKey, publicKey |-> publicKey ]

\* Mutant: one key pair, made once, is given to every call.
generateEphemeralKeyPairOnce(draw) ==
    [ privateKey |-> Seed(0), publicKey |-> getPublicKey(Seed(0)) ]

\* draw: how many values the random source has given before this call
generateEphemeralKeyPair(draw) ==
    LET privateKey == randomBytes(draw, 32)
        publicKey == getPublicKey(privateKey)
    IN  [ privateKey |-> privateKey, publicKey |-> publicKey ]

(***************************************************************************)
(* Standard encryption (src/unnamed/part_007, lines 63-257)                *)
(***************************************************************************)
ENCRYPTION_INFO_PREFIX == Label("AlgoChatV1")
SENDER_KEY_INFO_PREFIX == Label("AlgoChatV1-SenderKey")
PSK_INFO == Label("AlgoChatV1-PSK")

\* psk is options?.psk, always 32 bytes when present
deriveIKM(ecdhSecret, psk) ==
    IF psk = Undefined THEN ecdhSecret
    ELSE hkdf(ecdhSecret, psk, PSK_INFO)

\* What an encryptor returns: an envelope and the number of values it drew
\* from the random source, or the error it threw.
Sealed(env, draws) == [ ok |-> TRUE, env |-> env, draws |-> draws, error |-> "" ]
SealError(error) == [ ok |-> FALSE, env |-> Undefined, draws |-> 0, error |-> error ]

\* Mutant: a message of exactly the maximum size is rejected too.
encryptMessageRejectsLimit(plaintext, senderPublicKey, recipientPublicKey, psk, draw) ==
    LET messageBytes == TextEncode(plaintext)
        ephemeral == generateEphemeralKeyPair(draw)
        sharedSecret == x25519ECDH(ephemeral.privateKey, recipientPublicKey)
        info == concatBytes(<< ENCRYPTION_INFO_PREFIX, senderPublicKey, recipientPublicKey >>)
        symmetricKey == hkdf(deriveIKM(sharedSecret, psk), ephemeral.publicKey, info)
        nonce == randomBytes(draw + 1, 12)
        senderSharedSecret == x25519ECDH(ephemeral.privateKey, senderPublicKey)
        senderInfo == concatBytes(<< SENDER_KEY_INFO_PREFIX, senderPublicKey >>)
        senderEncryptionKey ==
            hkdf(deriveIKM(senderSharedSecret, psk), ephemeral.publicKey, senderInfo)
    IN  IF Len(messageBytes) >= MAX_PAYLOAD_SIZE
        THEN SealError("EncryptionError")
        ELSE Sealed([ version            |-> VERSION,
                      protocolId         |-> PROTOCOL_ID,
                      senderPublicKey    |-> senderPublicKey,
                      ephemeralPublicKey |-> ephemeral.publicKey,
                      nonce              |-> nonce,
                      encryptedSenderKey |-> AeadEncrypt(senderEncryptionKey, nonce, symmetricKey),
                      ciphertext         |-> AeadEncrypt(symmetricKey, nonce, Bytes(messageBytes)) ],
                    2)

\* Mutant: the limit leaves no room for the authentication tag.
encryptMessageLimitWithoutTag(plaintext, senderPublicKey, recipientPublicKey, psk, draw) ==
    LET messageBytes == TextEncode(plaintext)
        \* Step 1
        ephemeral == generateEphemeralKeyPair(draw)
        \* Step 2
        sharedSecret == x25519ECDH(ephemeral.privateKey, recipientPublicKey)
        ikm == deriveIKM(sharedSecret, psk)
        info == concatBytes(<< ENCRYPTION_INFO_PREFIX, senderPublicKey, recipientPublicKey >>)
        symmetricKey == hkdf(ikm, ephemeral.publicKey, info)
        \* Step 3
        nonce == randomBytes(draw + 1, 12)
        \* Step 4
        ciphertextWithTag == AeadEncrypt(symmetricKey, nonce, Bytes(messageBytes))
        \* Step 5
        senderSharedSecret == x25519ECDH(ephemeral.privateKey, senderPublicKey)
        senderIkm == deriveIKM(senderSharedSecret, psk)
        senderInfo == concatBytes(<< SENDER_KEY_INFO_PREFIX, senderPublicKey >>)
        senderEncryptionKey == hkdf(senderIkm, ephemeral.publicKey, senderInfo)
        encryptedSenderKey == AeadEncrypt(senderEncryptionKey, nonce, symmetricKey)
    IN  IF Len(messageBytes) > MAX_PAYLOAD_SIZE + TAG_SIZE
        THEN SealError("EncryptionError")
        ELSE Sealed([ version            |-> VERSION,
                      protocolId         |-> PROTOCOL_ID,
                      senderPublicKey    |-> senderPublicKey,
                      ephemeralPublicKey |-> ephemeral.publicKey,
                      nonce              |-> nonce,
                      encryptedSenderKey |-> encryptedSenderKey,
                      ciphertext         |-> ciphertextWithTag ],
                    2)

encryptMessage(plaintext, senderPublicKey, recipientPublicKey, psk, draw) ==
    LET messageBytes == TextEncode(plaintext)
        \* Step 1
        ephemeral == generateEphemeralKeyPair(draw)
        \* Step 2
        sharedSecret == x25519ECDH(ephemeral.privateKey, recipientPublicKey)
        ikm == deriveIKM(sharedSecret, psk)
        info == concatBytes(<< ENCRYPTION_INFO_PREFIX, senderPublicKey, recipientPublicKey >>)
        symmetricKey == hkdf(ikm, ephemeral.publicKey, info)
        \* Step 3
        nonce == randomBytes(draw + 1, 12)
        \* Step 4
        ciphertextWithTag == AeadEncrypt(symmetricKey, nonce, Bytes(messageBytes))
        \* Step 5
        senderSharedSecret == x25519ECDH(ephemeral.privateKey, senderPublicKey)
        senderIkm == deriveIKM(senderSharedSecret, psk)
        senderInfo == concatBytes(<< SENDER_KEY_INFO_PREFIX, senderPublicKey >>)
        senderEncryptionKey == hkdf(senderIkm, ephemeral.publicKey, senderInfo)
        encryptedSenderKey == AeadEncrypt(senderEncryptionKey, nonce, symmetricKey)
    IN  IF Len(messageBytes) > MAX_PAYLOAD_SIZE
        THEN SealError("EncryptionError")
        ELSE Sealed([ version            |-> VERSION,
                      protocolId         |-> PROTOCOL_ID,
                      senderPublicKey    |-> senderPublicKey,
                      ephemeralPublicKey |-> ephemeral.publicKey,
                      nonce              |-> nonce,
                      encryptedSenderKey |-> encryptedSenderKey,
                      ciphertext         |-> ciphertextWithTag ],
                    2)

\* The payload that encryptReply encrypts.
ReplyPayload(text, replyToTxid, replyToPreview) ==
    LET preview == IF Len(replyToPreview) > 80
                   THEN SubSeq(replyToPreview, 1, 77) \o << 46, 46, 46 >>
                   ELSE replyToPreview
    IN  StringifyReply(text, replyToTxid, preview)

encryptReply(text, replyToTxid, replyToPreview, senderPublicKey, recipientPublicKey, psk, draw) ==
    encryptMessage(ReplyPayload(text, replyToTxid, replyToPreview),
                   senderPublicKey, recipientPublicKey, psk, draw)

\* What a decryptor returns: the content, null, or the error it threw.
NullContent ==
    [ kind |-> "null", text |-> << >>, replyToId |-> JUndefined, replyToPreview |-> JUndefined ]
DecryptError ==
    [ kind |-> "error", text |-> << >>, replyToId |-> JUndefined, replyToPreview |-> JUndefined ]

Opened(plaintext) == [ ok |-> TRUE, plaintext |-> plaintext ]
OpenError == [ ok |-> FALSE, plaintext |-> Undefined ]

decryptAsRecipient(envelope, recipientPrivateKey, recipientPublicKey, psk) ==
    LET sharedSecret == x25519ECDH(recipientPrivateKey, envelope.ephemeralPublicKey)
        ikm == deriveIKM(sharedSecret, psk)
        info == concatBytes(<< ENCRYPTION_INFO_PREFIX, envelope.senderPublicKey,
                               recipientPublicKey >>)
        symmetricKey == hkdf(ikm, envelope.ephemeralPublicKey, info)
    IN  AeadDecrypt(symmetricKey, envelope.nonce, envelope.ciphertext)

\* Mutant: the sender's key is derived with the recipient path's info prefix.
decryptAsSenderWrongInfo(envelope, senderPrivateKey, senderPublicKey, psk) ==
    LET sharedSecret == x25519ECDH(senderPrivateKey, envelope.ephemeralPublicKey)
        senderInfo == concatBytes(<< ENCRYPTION_INFO_PREFIX, senderPublicKey >>)
        senderDecryptionKey ==
            hkdf(deriveIKM(sharedSecret, psk), envelope.ephemeralPublicKey, senderInfo)
        symmetricKey == AeadDecrypt(senderDecryptionKey, envelope.nonce,
                                    envelope.encryptedSenderKey)
    IN  IF ~symmetricKey.ok THEN OpenError
        ELSE AeadDecrypt(symmetricKey.plaintext, envelope.nonce, envelope.ciphertext)

decryptAsSender(envelope, senderPrivateKey, senderPublicKey, psk) ==
    LET \* Step 1
        sharedSecret == x25519ECDH(senderPrivateKey, envelope.ephemeralPublicKey)
        ikm == deriveIKM(sharedSecret, psk)
        senderInfo == concatBytes(<< SENDER_KEY_INFO_PREFIX, senderPublicKey >>)
        senderDecryptionKey == hkdf(ikm, envelope.ephemeralPublicKey, senderInfo)
        \* Step 2
        symmetricKey == AeadDecrypt(senderDecryptionKey, envelope.nonce,
                                    envelope.encryptedSenderKey)
    IN  IF ~symmetricKey.ok THEN OpenError
        \* Step 3
        ELSE AeadDecrypt(symmetricKey.plaintext, envelope.nonce, envelope.ciphertext)

decryptMessage(envelope, myPrivateKey, myPublicKey, psk) ==
    LET weAreSender == uint8ArrayEquals(myPublicKey, envelope.senderPublicKey)
        plaintext == IF weAreSender
                     THEN decryptAsSender(envelope, myPrivateKey, myPublicKey, psk)
                     ELSE decryptAsRecipient(envelope, myPrivateKey, myPublicKey, psk)
    IN  IF ~plaintext.ok THEN DecryptError
        ELSE IF isKeyPublishPayload(plaintext.plaintext.val) THEN NullContent
        ELSE parseMessagePayload(plaintext.plaintext.val)

(***************************************************************************)
(* PSK ratchet (src/unnamed/part_013)                                      *)
(***************************************************************************)
SESSION_SIZE == 100
SESSION_SALT == Label("AlgoChat-PSK-Session")
POSITION_SALT == Label("AlgoChat-PSK-Position")
HYBRID_INFO_PREFIX == Label("AlgoChatV1-PSK")
PSK_SENDER_KEY_INFO_PREFIX == Label("AlgoChatV1-PSK-SenderKey")

\* value is below 2^31 here
uint32BE(value) ==
    Bytes(<< (value \div 16777216) % 256, (value \div 65536) % 256,
             (value \div 256) % 256, value % 256 >>)

deriveSessionPSK(initialPSK, sessionIndex) ==
    hkdf(initialPSK, SESSION_SALT, uint32BE(sessionIndex))

derivePositionPSK(sessionPSK, position) ==
    hkdf(sessionPSK, POSITION_SALT, uint32BE(position))

\* Mutant: the session index is rounded to the nearest session.
derivePSKAtCounterRounded(initialPSK, counter) ==
    LET sessionIndex == (counter + SESSION_SIZE \div 2) \div SESSION_SIZE
        position == counter % SESSION_SIZE
        sessionPSK == deriveSessionPSK(initialPSK, sessionIndex)
    IN  derivePositionPSK(sessionPSK, position)

derivePSKAtCounter(initialPSK, counter) ==
    LET sessionIndex == counter \div SESSION_SIZE
        position == counter % SESSION_SIZE
        sessionPSK == deriveSessionPSK(initialPSK, sessionIndex)
    IN  derivePositionPSK(sessionPSK, position)

NoDerived == [ made |-> FALSE, initialPSK |-> 0, counter |-> 0, key |-> Undefined ]

RatchetIdle == derived = NoDerived

deriveHybridSymmetricKey(sharedSecret, currentPSK, ephemeralPublicKey, senderPublicKey, recipientPublicKey) ==
    LET ikm == concatBytes(<< sharedSecret, currentPSK >>)
        info == concatBytes(<< HYBRID_INFO_PREFIX, senderPublicKey, recipientPublicKey >>)
    IN  hkdf(ikm, ephemeralPublicKey, info)

\* Mutant: the PSK is left out of the sender key's input keying material.
deriveSenderKeyWithoutPSK(senderSharedSecret, currentPSK, ephemeralPublicKey, senderPublicKey) ==
    LET ikm == concatBytes(<< senderSharedSecret >>)
        info == concatBytes(<< PSK_SENDER_KEY_INFO_PREFIX, senderPublicKey >>)
    IN  hkdf(ikm, ephemeralPublicKey, info)

deriveSenderKey(senderSharedSecret, currentPSK, ephemeralPublicKey, senderPublicKey) ==
    LET ikm == concatBytes(<< senderSharedSecret, currentPSK >>)
        info == concatBytes(<< PSK_SENDER_KEY_INFO_PREFIX, senderPublicKey >>)
    IN  hkdf(ikm, ephemeralPublicKey, info)

(***************************************************************************)
(* PSK encryption (src/src/models/types.ts, lines 75-261)                  *)
(***************************************************************************)
encryptPSKMessage(plaintext, senderPublicKey, recipientPublicKey, currentPSK, ratchetCounter, draw) ==
    LET messageBytes == TextEncode(plaintext)
        \* Step 1
        ephemeral == generateEphemeralKeyPair(draw)
        \* Step 2
        sharedSecret == x25519ECDH(ephemeral.privateKey, recipientPublicKey)
        \* Step 3
        symmetricKey == deriveHybridSymmetricKey(sharedSecret, currentPSK,
                            ephemeral.publicKey, senderPublicKey, recipientPublicKey)
        \* Step 4
        nonce == randomBytes(draw + 1, 12)
        \* Step 5
        ciphertextWithTag == AeadEncrypt(symmetricKey, nonce, Bytes(messageBytes))
        \* Step 6
        senderSharedSecret == x25519ECDH(ephemeral.privateKey, senderPublicKey)
        \* Step 7
        senderEncryptionKey == deriveSenderKey(senderSharedSecret, currentPSK,
                                   ephemeral.publicKey, senderPublicKey)
        \* Step 8
        encryptedSenderKey == AeadEncrypt(senderEncryptionKey, nonce, symmetricKey)
    IN  IF Len(messageBytes) > PSK_MAX_PAYLOAD_SIZE
        THEN SealError("PSKEncryptionError")
        \* Step 9
        ELSE Sealed([ version            |-> PSK_VERSION,
                      protocolId         |-> PSK_PROTOCOL_ID,
                      ratchetCounter     |-> ratchetCounter,
                      senderPublicKey    |-> senderPublicKey,
                      ephemeralPublicKey |-> ephemeral.publicKey,
                      nonce              |-> nonce,
                      encryptedSenderKey |-> encryptedSenderKey,
                      ciphertext         |-> ciphertextWithTag ],
                    2)

decryptPSKAsRecipient(envelope, recipientPrivateKey, recipientPublicKey, currentPSK) ==
    LET sharedSecret == x25519ECDH(recipientPrivateKey, envelope.ephemeralPublicKey)
        symmetricKey == deriveHybridSymmetricKey(sharedSecret, currentPSK,
                            envelope.ephemeralPublicKey, envelope.senderPublicKey,
                            recipientPublicKey)
    IN  AeadDecrypt(symmetricKey, envelope.nonce, envelope.ciphertext)

decryptPSKAsSender(envelope, senderPrivateKey, senderPublicKey, currentPSK) ==
    LET \* Step 1
        sharedSecret == x25519ECDH(senderPrivateKey, envelope.ephemeralPublicKey)
        \* Step 2
        senderDecryptionKey == deriveSenderKey(sharedSecret, currentPSK,
                                   envelope.ephemeralPublicKey, senderPublicKey)
        \* Step 3
        symmetricKey == AeadDecrypt(senderDecryptionKey, envelope.nonce,
                                    envelope.encryptedSenderKey)
    IN  IF ~symmetricKey.ok THEN OpenError
        \* Step 4
        ELSE AeadDecrypt(symmetricKey.plaintext, envelope.nonce, envelope.ciphertext)

decryptPSKMessage(envelope, recipientPrivateKey, recipientPublicKey, currentPSK) ==
    LET weAreSender == uint8ArrayEquals(recipientPublicKey, envelope.senderPublicKey)
        plaintext ==
            IF weAreSender
            THEN decryptPSKAsSender(envelope, recipientPrivateKey, recipientPublicKey,
                                    currentPSK)
            ELSE decryptPSKAsRecipient(envelope, recipientPrivateKey, recipientPublicKey,
                                       currentPSK)
    IN  IF ~plaintext.ok THEN DecryptError
        ELSE IF isKeyPublishPayload(plaintext.plaintext.val) THEN NullContent
        ELSE parseMessagePayload(plaintext.plaintext.val)

(***************************************************************************)
(* Inputs of the encryptors                                                *)
(***************************************************************************)
\* n copies of code unit c
Repeat(c, n) == [ i \in 1..n |-> c ]

\* Short plaintexts: plain text in one to four UTF-8 bytes per character,
\* unpaired surrogates, a leading byte order mark, and JSON-shaped texts.
ShortPlaintexts ==
    { TextHi, TextEmpty, TextAccent, TextEuro, TextEmoji, TextLoneSurrogate,
      TextLoneLow, TextBOM, TextBrace, TextKeyPublish, TextKeyPublishSpaced,
      TextJsonText, TextJsonTextNumber, TextJsonOther, TextJsonTypeOther,
      TextJsonReply, TextSpaceKeyPublish, TextBOMJsonText, TextBOMKeyPublish,
      TextKeyPublishWithText }

\* Plaintexts at and just over a size limit: 'a' (one byte each) and
\* U+00E9 (two bytes each, so half as many characters).
AtLimit(max) ==
    { Repeat(97, max), Repeat(97, max + 1),
      Repeat(233, max \div 2), Repeat(233, max \div 2 + 1) }

StandardPlaintexts == ShortPlaintexts \cup AtLimit(MAX_PAYLOAD_SIZE)
PSKPlaintexts == ShortPlaintexts \cup AtLimit(PSK_MAX_PAYLOAD_SIZE)

\* Identities 1 .. MaxIdentity, each derived from its own account seed.
Identities == 1..MaxIdentity
Identity(i) == deriveEncryptionKeys(Seed(i))

\* Initial PSKs 1 .. MaxPSK and ratchet counters in the first two sessions.
\* Replies: texts up to the largest that fits beside an empty reply context,
\* a text that needs escaping, and previews at and over the 80 characters
\* that are kept.
ReplyOverhead == Len(ReplyPayload(<< >>, << >>, << >>))
ReplyTexts ==
    { TextHi, << 72, 34, 105 >>, TextEmoji,
      Repeat(97, MAX_PAYLOAD_SIZE - ReplyOverhead),
      Repeat(97, MAX_PAYLOAD_SIZE - ReplyOverhead + 1) }
ReplyTxids == { << >>, << 84, 88, 49 >> }
ReplyPreviews == { << >>, TextHi, Repeat(112, 80), Repeat(112, 81) }

PSKs == 1..MaxPSK
PSKCounters == { 0, SESSION_SIZE - 1, SESSION_SIZE }

NoSeal ==
    [ kind |-> "none", res |-> SealError(""), plaintext |-> << >>,
      sender |-> 0, recipient |-> 0, psk |-> 0, counter |-> 0, drawsBefore |-> 0,
      reply |-> << >> ]
NoOpen == [ by |-> 0, psk |-> 0, counter |-> 0, res |-> DecryptError ]

CryptoIdle ==
    /\ rng = 0
    /\ sealed = NoSeal
    /\ opened = NoOpen

\* An envelope on its way from encryptMessage to decryptMessage: `produced` is
\* what encryptMessage returned, `env` what arrives, `field` the field in
\* which the two differ.
NoChannel ==
    [ made |-> FALSE, plaintext |-> << >>, sender |-> 0, recipient |-> 0,
      produced |-> Undefined, env |-> Undefined, field |-> "none" ]
NoReceived == [ by |-> 0, res |-> DecryptError ]

ChannelIdle ==
    /\ channel = NoChannel
    /\ received = NoReceived

\* The two AEAD encryptions an encryptor makes for an envelope, in the order
\* it makes them: the message under symmetricKey, then symmetricKey under
\* senderEncryptionKey.
AeadUses(envelope) ==
    << [ key |-> envelope.ciphertext.args[1], nonce |-> envelope.ciphertext.args[2] ],
       [ key |-> envelope.encryptedSenderKey.args[1],
         nonce |-> envelope.encryptedSenderKey.args[2] ] >>

AeadIdle == aeadLog = << >>

(***************************************************************************)
(* PSK exchange URIs (src/src/crypto/index.ts). Strings are sequences of   *)
(* UTF-16 code units, as elsewhere.                                        *)
(***************************************************************************)
\* The base64 character of a 6-bit value, and the value of a character
\* (-1 for a character outside the alphabet A-Z a-z 0-9 + /).
Base64Char(v) ==
    IF v < 26 THEN 65 + v
    ELSE IF v < 52 THEN 97 + (v - 26)
    ELSE IF v < 62 THEN 48 + (v - 52)
    ELSE IF v = 62 THEN 43
    ELSE 47

Base64Value(c) ==
    IF 65 <= c /\ c <= 90 THEN c - 65
    ELSE IF 97 <= c /\ c <= 122 THEN c - 97 + 26
    ELSE IF 48 <= c /\ c <= 57 THEN c - 48 + 52
    ELSE IF c = 43 THEN 62
    ELSE IF c = 47 THEN 63
    ELSE -1

\* btoa(binary), the binary string being one code unit below 256 per byte
btoa(data) ==
    LET n == Len(data)
        byte(i) == IF i <= n THEN data[i] ELSE 0
        quad(g) ==
            << Base64Char(byte(3 * g - 2) \div 4),
               Base64Char((byte(3 * g - 2) % 4) * 16 + byte(3 * g - 1) \div 16),
               IF 3 * g - 1 > n THEN 61
               ELSE Base64Char((byte(3 * g - 1) % 16) * 4 + byte(3 * g) \div 64),
               IF 3 * g > n THEN 61 ELSE Base64Char(byte(3 * g) % 64) >>
    IN  ConcatAll([ g \in 1..((n + 2) \div 3) |-> quad(g) ])

\* str.replace(/=+$/, '')
StripPadding(str) ==
    LET kept == { k \in 0..Len(str) : \A i \in (k + 1)..Len(str) : str[i] = 61 }
    IN  SubSeq(str, 1, LeastOf(kept))

toBase64Url(data) ==
    LET base64 == btoa(data)
    IN  StripPadding([ i \in 1..Len(base64) |->
                         IF base64[i] = 43 THEN 45
                         ELSE IF base64[i] = 47 THEN 95
                         ELSE base64[i] ])

\* What a function that may throw gives when it returns a string or bytes.
Gave(str) == [ ok |-> TRUE, str |-> str ]
ThrewError == [ ok |-> FALSE, str |-> << >> ]

\* The bytes of base64 characters, the bits left over dropped.
Base64Bytes(chars) ==
    LET value(i) == IF i <= Len(chars) THEN Base64Value(chars[i]) ELSE 0
        byte(k) ==
            LET g == (k - 1) \div 3
                r == (k - 1) % 3
            IN  IF r = 0 THEN value(4 * g + 1) * 4 + value(4 * g + 2) \div 16
                ELSE IF r = 1 THEN (value(4 * g + 2) % 16) * 16 + value(4 * g + 3) \div 4
                ELSE (value(4 * g + 3) % 4) * 64 + value(4 * g + 4)
    IN  [ k \in 1..((Len(chars) * 3) \div 4) |-> byte(k) ]

\* The characters atob decodes, once white space and padding are off.
AtobChars(chars) ==
    IF Len(chars) % 4 = 1 \/ \E i \in 1..Len(chars) : Base64Value(chars[i]) = -1
    THEN ThrewError
    ELSE Gave(Base64Bytes(chars))

\* atob(str): forgiving-base64 decode. ASCII white space is dropped; of a
\* length that is then a multiple of four, one or two '=' at the end are
\* dropped; a length of 1 modulo 4 or a character outside the alphabet throws.
atob(str) ==
    CHOOSE r \in { AtobChars(IF Len(clean) % 4 = 0 /\ Len(clean) >= 2
                                /\ clean[Len(clean)] = 61 /\ clean[Len(clean) - 1] = 61
                             THEN SubSeq(clean, 1, Len(clean) - 2)
                             ELSE IF Len(clean) % 4 = 0 /\ Len(clean) >= 1
                                     /\ clean[Len(clean)] = 61
                             THEN SubSeq(clean, 1, Len(clean) - 1)
                             ELSE clean) :
                   clean \in { SelectSeq(str, LAMBDA c : c \notin { 9, 10, 12, 13, 32 }) } } : TRUE

fromBase64Url(str) ==
    LET base64 == [ i \in 1..Len(str) |->
                      IF str[i] = 45 THEN 43 ELSE IF str[i] = 95 THEN 47 ELSE str[i] ]
        padding == Len(base64) % 4
    IN  atob(IF padding = 2 THEN base64 \o << 61, 61 >>
             ELSE IF padding = 3 THEN base64 \o << 61 >>
             ELSE base64)

\* A string without unpaired surrogates.
IsWellFormed(s) ==
    \A i \in 1..Len(s) :
        /\ IsHighSurrogate(s[i]) => (i < Len(s) /\ IsLowSurrogate(s[i + 1]))
        /\ IsLowSurrogate(s[i]) => (i > 1 /\ IsHighSurrogate(s[i - 1]))

\* A-Z a-z 0-9 - _ . ! ~ * ' ( )
IsUnreserved(c) ==
    \/ 65 <= c /\ c <= 90
    \/ 97 <= c /\ c <= 122
    \/ 48 <= c /\ c <= 57
    \/ c \in { 45, 95, 46, 33, 126, 42, 39, 40, 41 }

UpperHexDigit(n) == IF n < 10 THEN 48 + n ELSE 55 + n

PercentEncoded(bytes) ==
    ConcatAll([ i \in 1..Len(bytes) |->
                  << 37, UpperHexDigit(bytes[i] \div 16), UpperHexDigit(bytes[i] % 16) >> ])

\* encodeURIComponent(str): throws URIError on an unpaired surrogate
encodeURIComponent(str) ==
    IF ~IsWellFormed(str) THEN ThrewError
    ELSE Gave(ConcatAll([ i \in 1..Len(str) |->
                            IF IsUnreserved(str[i]) THEN << str[i] >>
                            ELSE PercentEncoded(EncodeUnitAt(str, i)) ]))

\* The parts of s between the separators, from position `from` on.
RECURSIVE Split(_, _, _)
Split(s, sep, from) ==
    IF from > Len(s) THEN << >>
    ELSE CHOOSE r \in { << SubSeq(s, from, end - 1) >> \o Split(s, sep, end + 1) :
                        end \in { LeastOf({ j \in from..Len(s) : s[j] = sep }
                                          \cup { Len(s) + 1 }) } } : TRUE

\* Percent-decoding of bytes: %XX with two hex digits gives one byte.
PercentDecode(bytes) ==
    LET escape(i) == /\ i >= 1 /\ i + 2 <= Len(bytes)
                     /\ bytes[i] = 37
                     /\ HexValue(bytes[i + 1]) >= 0 /\ HexValue(bytes[i + 2]) >= 0
    IN  ConcatAll([ i \in 1..Len(bytes) |->
                      IF escape(i) THEN << 16 * HexValue(bytes[i + 1]) + HexValue(bytes[i + 2]) >>
                      ELSE IF escape(i - 1) \/ escape(i - 2) THEN << >>
                      ELSE << bytes[i] >> ])

\* A name or value of a query: '+' is a space, then percent-decoding, then
\* UTF-8 decoding that keeps a byte order mark.
FormDecode(part) ==
    CHOOSE r \in { ConcatAll([ j \in 1..Len(bytes) |-> DecodeByteAt(bytes, j) ]) :
                   bytes \in { PercentDecode(TextEncode([ i \in 1..Len(part) |->
                                   IF part[i] = 43 THEN 32 ELSE part[i] ])) } } : TRUE

\* The name and value of one part of a query, split at its first '='.
FormPair(part) ==
    LET eq == LeastOf({ j \in 1..Len(part) : part[j] = 61 } \cup { Len(part) + 1 })
    IN  [ name  |-> FormDecode(SubSeq(part, 1, eq - 1)),
          value |-> FormDecode(SubSeq(part, eq + 1, Len(part))) ]

\* new URLSearchParams(query): a leading '?' is dropped, empty parts skipped
URLSearchParams(query) ==
    LET parts == SelectSeq(Split(query, 38, IF Len(query) >= 1 /\ query[1] = 63 THEN 2 ELSE 1),
                           LAMBDA part : part # << >>)
    IN  [ i \in 1..Len(parts) |-> FormPair(parts[i]) ]

\* params.get(name): the first value of that name, or null
Null == [ null |-> TRUE, value |-> << >> ]
ParamsGet(params, name) ==
    LET at == { i \in 1..Len(params) : params[i].name = name }
    IN  IF at = {} THEN Null ELSE [ null |-> FALSE, value |-> params[LeastOf(at)].value ]

URI_PREFIX == << 97, 108, 103, 111, 99, 104, 97, 116, 45, 112, 115, 107, 58, 47, 47, 118, 49, 63 >>
LitAddrEq == << 97, 100, 100, 114, 61 >>
LitPskEq == << 38, 112, 115, 107, 61 >>
LitLabelEq == << 38, 108, 97, 98, 101, 108, 61 >>
NameAddr == << 97, 100, 100, 114 >>
NamePsk == << 112, 115, 107 >>
NameLabel == << 108, 97, 98, 101, 108 >>

\* An optional label: undefined, or a string.
NoLabel == [ given |-> FALSE, text |-> << >> ]
SomeLabel(text) == [ given |-> TRUE, text |-> text ]

\* Mutant: the label is written as it is.
createPSKExchangeURIRawLabel(address, psk, label) ==
    IF ~encodeURIComponent(address).ok THEN ThrewError
    ELSE Gave(URI_PREFIX \o LitAddrEq \o encodeURIComponent(address).str
              \o LitPskEq \o toBase64Url(psk)
              \o (IF label.given /\ Len(label.text) > 0 THEN LitLabelEq \o label.text ELSE << >>))

createPSKExchangeURI(address, psk, label) ==
    LET pskEncoded == toBase64Url(psk)
        addr == encodeURIComponent(address)
        encodedLabel == encodeURIComponent(label.text)
    IN  IF ~addr.ok THEN ThrewError
        ELSE IF label.given /\ Len(label.text) > 0
        THEN IF ~encodedLabel.ok THEN ThrewError
             ELSE Gave(URI_PREFIX \o LitAddrEq \o addr.str \o LitPskEq \o pskEncoded
                       \o LitLabelEq \o encodedLabel.str)
        ELSE Gave(URI_PREFIX \o LitAddrEq \o addr.str \o LitPskEq \o pskEncoded)

ParseError(error) ==
    [ ok |-> FALSE, error |-> error, address |-> << >>, psk |-> << >>, label |-> NoLabel ]

\* parsePSKExchangeURI once the parameters are read
ParsedExchange(address, pskParam, label) ==
    IF address.null \/ address.value = << >> THEN ParseError("Missing addr parameter")
    ELSE IF pskParam.null \/ pskParam.value = << >> THEN ParseError("Missing psk parameter")
    ELSE CHOOSE r \in { IF ~psk.ok THEN ParseError("InvalidCharacterError")
                        ELSE IF Len(psk.str) # 32 THEN ParseError("Invalid PSK length")
                        ELSE [ ok |-> TRUE, error |-> "", address |-> address.value,
                               psk |-> psk.str,
                               label |-> IF label.null THEN NoLabel ELSE SomeLabel(label.value) ] :
                        psk \in { fromBase64Url(pskParam.value) } } : TRUE

parsePSKExchangeURI(uri) ==
    IF ~StartsWithAt(uri, 1, URI_PREFIX) THEN ParseError("Invalid PSK exchange URI format")
    ELSE CHOOSE r \in { ParsedExchange(ParamsGet(params, NameAddr), ParamsGet(params, NamePsk),
                                       ParamsGet(params, NameLabel)) :
                        params \in { URLSearchParams(SubSeq(uri, Len(URI_PREFIX) + 1, Len(uri))) } } : TRUE

NoExchange ==
    [ from |-> "none", address |-> << >>, psk |-> << >>, label |-> NoLabel,
      uri |-> ThrewError, parsed |-> FALSE, result |-> ParseError("") ]

ExchangeIdle == exchange = NoExchange

(***************************************************************************)
(* Conversations and message caches (src/src/models/Conversation.ts,       *)
(* src/src/cache/MessageCache.ts). A message is its id and its             *)
(* timestamp.getTime().                                                    *)
(***************************************************************************)
Message(id, timestamp) == [ id |-> id, timestamp |-> timestamp ]

\* Array.prototype.sort((a, b) => a.timestamp.getTime() - b.timestamp.getTime()):
\* a stable sort, so messages of one timestamp keep their order.
RECURSIVE SortByTimestamp(_)
SortByTimestamp(list) ==
    IF Len(list) <= 1 THEN list
    ELSE CHOOSE r \in { SelectSeq(sorted, LAMBDA m : m.timestamp <= list[Len(list)].timestamp)
                          \o << list[Len(list)] >>
                          \o SelectSeq(sorted, LAMBDA m : m.timestamp > list[Len(list)].timestamp) :
                        sorted \in { SortByTimestamp(SubSeq(list, 1, Len(list) - 1)) } } : TRUE

Ids(list) == { list[i].id : i \in 1..Len(list) }

\* The loop of merge and of the storage cache's store: the messages of the
\* batch from the k-th on are pushed unless their id is among existingIds.
RECURSIVE PushNew(_, _, _, _)
PushNew(list, existingIds, batch, k) ==
    IF k > Len(batch) THEN list
    ELSE IF batch[k].id \in existingIds THEN PushNew(list, existingIds, batch, k + 1)
    ELSE PushNew(Append(list, batch[k]), existingIds \cup { batch[k].id }, batch, k + 1)

\* Conversation.append: the new _messages and the value returned
append(list, message) ==
    IF \E i \in 1..Len(list) : list[i].id = message.id
    THEN [ messages |-> list, returned |-> 0 ]
    ELSE [ messages |-> SortByTimestamp(Append(list, message)), returned |-> 1 ]

\* Mutant: the batch is pushed as it comes.
mergeAll(list, batch) ==
    [ messages |-> SortByTimestamp(list \o batch), returned |-> Len(batch) ]

\* Conversation.merge: the new _messages and the number returned
merge(list, batch) ==
    LET pushed == PushNew(list, Ids(list), batch, 1)
        added == Len(pushed) - Len(list)
    IN  [ messages |-> IF added > 0 THEN SortByTimestamp(pushed) ELSE pushed,
          returned |-> added ]

\* The storage InMemoryMessageCache.store(messages, participant): the new
\* list of the participant
storeMessages(existing, batch) ==
    SortByTimestamp(PushNew(existing, Ids(existing), batch, 1))

\* Map.prototype.set(message.id, message) on the entries of a Map, kept in
\* insertion order: an entry of that key keeps its place and gets the value.
MapSet(entries, message) ==
    IF message.id \in Ids(entries)
    THEN [ i \in 1..Len(entries) |->
             IF entries[i].id = message.id THEN message ELSE entries[i] ]
    ELSE Append(entries, message)

\* The cache InMemoryMessageCache.store(participant, message)
store(c, participant, message) ==
    [ conversations |-> [ c.conversations EXCEPT
                            ![participant] = MapSet(c.conversations[participant], message) ],
      messageIndex  |-> [ c.messageIndex EXCEPT ![message.id] = participant ] ]

\* The cache InMemoryMessageCache.storeMany(participant, messages), from the
\* k-th message on
RECURSIVE storeMany(_, _, _, _)
storeMany(c, participant, batch, k) ==
    IF k > Len(batch) THEN c
    ELSE storeMany(store(c, participant, batch[k]), participant, batch, k + 1)

\* The cache InMemoryMessageCache.retrieve(participant)
retrieve(c, participant) == SortByTimestamp(c.conversations[participant])

\* The cache InMemoryMessageCache.has(messageId)
has(c, id) == c.messageIndex[id] # 0

\* What get gives for undefined.
NoMessage == Message(0, 0)

\* The cache InMemoryMessageCache.get(messageId)
get(c, id) ==
    LET participant == c.messageIndex[id]
    IN  IF participant = 0 THEN NoMessage
        ELSE IF id \in Ids(c.conversations[participant])
        THEN CHOOSE m \in { c.conversations[participant][i] :
                                i \in 1..Len(c.conversations[participant]) } : m.id = id
        ELSE NoMessage

\* The cache InMemoryMessageCache.clear(participant)
clear(c, participant) ==
    [ conversations |-> [ c.conversations EXCEPT ![participant] = << >> ],
      messageIndex  |-> [ id \in DOMAIN c.messageIndex |->
                            IF id \in Ids(c.conversations[participant]) THEN 0
                            ELSE c.messageIndex[id] ] ]

\* The cache InMemoryMessageCache.clearAll()
clearAll(c) ==
    [ conversations |-> [ p \in DOMAIN c.conversations |-> << >> ],
      messageIndex  |-> [ id \in DOMAIN c.messageIndex |-> 0 ] ]

\* The cache InMemoryMessageCache.messageCount: messageIndex.size
messageCount(c) == Cardinality({ id \in DOMAIN c.messageIndex : c.messageIndex[id] # 0 })

Participants == { 1, 2 }
MessageIds == 1..MaxMessageId
\* Two times, so that a message can come before or after one already there or
\* at its time; batches of none, one or two messages, so that a batch can
\* hold an id twice.
Timestamps == { 1, 2 }
AllMessages == { Message(id, timestamp) : id \in MessageIds, timestamp \in Timestamps }
Batches == UNION { [ 1..n -> AllMessages ] : n \in { 0, 1, 2 } }

NoInsert ==
    [ on |-> "none", op |-> "none", before |-> << >>, batch |-> << >>, returned |-> 0 ]

StoreIdle ==
    /\ conversation = << >>
    /\ storage = [ p \in Participants |-> << >> ]
    /\ cache = [ conversations |-> [ p \in Participants |-> << >> ],
                 messageIndex  |-> [ id \in MessageIds |-> 0 ] ]
    /\ lastInsert = NoInsert

(***************************************************************************)
(* Ed25519 signatures over encryption keys (src/src/crypto/signature.ts)   *)
(* The signature scheme is ideal: a signature verifies exactly when it is  *)
(* the one the holder of the verifying key's secret made for the message.  *)
(***************************************************************************)
ED25519_SIGNATURE_SIZE == 64
ED25519_PUBLIC_KEY_SIZE == 32
X25519_PUBLIC_KEY_SIZE == 32

\* What a function that may throw gives: its value, or threw.
Returned(value) == [ threw |-> FALSE, value |-> value ]
Threw == [ threw |-> TRUE, value |-> FALSE ]

\* The accounts of the ledger, named for their (well-formed) addresses, and a
\* string that is not an address.
Accounts == { "SENDER_ADDRESS", "OTHER_ADDRESS" }
MalformedAddress == "NOT_A_VALID_ADDRESS"
Addresses == Accounts \cup { MalformedAddress }
AccountNumber(address) == IF address = "SENDER_ADDRESS" THEN 1 ELSE 2

\* The account's Ed25519 secret key, and the public key its address encodes.
SigningKey(address) == Ramp(ED25519_PUBLIC_KEY_SIZE, 40 + AccountNumber(address))
Ed25519PublicKey(address) == Ramp(ED25519_PUBLIC_KEY_SIZE, 80 + AccountNumber(address))

\* algosdk.Address.fromString(address).publicKey: fromString throws for a
\* string that is not a well-formed address.
decodeAlgorandAddress(address) ==
    IF address \in Accounts THEN Returned(Ed25519PublicKey(address)) ELSE Threw

\* The account's X25519 encryption public key.
EncryptionKeyBytes(address) == Ramp(X25519_PUBLIC_KEY_SIZE, AccountNumber(address))

\* ed25519.sign(message, secretKey): deterministic
ed25519Sign(message, secretKey) ==
    [ i \in 1..ED25519_SIGNATURE_SIZE |->
        (message[1] + 3 * message[2] + 5 * secretKey[1] + 11 * i) % 256 ]

\* ed25519.verify(signature, message, publicKey)
ed25519Verify(signature, message, publicKey) ==
    \E a \in Accounts :
        /\ publicKey = Ed25519PublicKey(a)
        /\ signature = ed25519Sign(message, SigningKey(a))

signEncryptionKey(encryptionPublicKey, signingKey) ==
    ed25519Sign(encryptionPublicKey, signingKey)

verifyEncryptionKey(encryptionPublicKey, verifyingKey, signature) ==
    IF Len(encryptionPublicKey) # X25519_PUBLIC_KEY_SIZE THEN Threw
    ELSE IF Len(verifyingKey) # ED25519_PUBLIC_KEY_SIZE THEN Threw
    ELSE IF Len(signature) # ED25519_SIGNATURE_SIZE THEN Threw
    ELSE Returned(ed25519Verify(signature, encryptionPublicKey, verifyingKey))

(***************************************************************************)
(* Key discovery (src/unnamed/part_006 and                                 *)
(* src/src/blockchain/message-indexer.ts)                                  *)
(***************************************************************************)
\* A discovery's outcome: a DiscoveredKey, undefined, or the error thrown.
Discovered(publicKey, isVerified) ==
    [ outcome |-> "key", publicKey |-> publicKey, isVerified |-> isVerified, address |-> "" ]
NotDiscovered ==
    [ outcome |-> "undefined", publicKey |-> << >>, isVerified |-> FALSE, address |-> "" ]
PublicKeyNotFoundError(address) ==
    [ outcome |-> "PublicKeyNotFoundError", publicKey |-> << >>, isVerified |-> FALSE,
      address |-> address ]
DiscoveryThrew ==
    [ outcome |-> "Error", publicKey |-> << >>, isVerified |-> FALSE, address |-> "" ]

\* The optional argument ed25519PublicKey left out.
NoKey == << -1 >>

\* Mutant: a signature that is present counts as verified.
parseKeyAnnouncementUnchecked(txNote, ed25519PublicKey) ==
    IF Len(txNote) < 32 THEN NotDiscovered
    ELSE Discovered(Slice(txNote, 0, 32), Len(txNote) >= 96 /\ ed25519PublicKey # NoKey)

\* parseKeyAnnouncement: the key in the first 32 bytes of the note, verified when
\* a signature follows it and checks against the given Ed25519 key.
parseKeyAnnouncement(txNote, ed25519PublicKey) ==
    IF Len(txNote) < 32 THEN NotDiscovered
    ELSE LET publicKey == Slice(txNote, 0, 32)
             signature == Slice(txNote, 32, 96)
             verified == verifyEncryptionKey(publicKey, ed25519PublicKey, signature)
             isVerified == IF Len(txNote) >= 96 /\ ed25519PublicKey # NoKey
                           THEN (IF verified.threw THEN FALSE ELSE verified.value)
                           ELSE FALSE
         IN  Discovered(publicKey, isVerified)

\* Mutant: the receiver is not looked at.
RECURSIVE discoverEncryptionKeyFromAnySent(_, _, _)
discoverEncryptionKeyFromAnySent(transactions, address, i) ==
    IF i > Len(transactions) THEN NotDiscovered
    ELSE LET tx == transactions[i]
             ed25519PublicKey == decodeAlgorandAddress(address)
         IN  IF tx.sender # address \/ ~tx.hasNote \/ Len(tx.note) < 32
             THEN discoverEncryptionKeyFromAnySent(transactions, address, i + 1)
             ELSE IF ed25519PublicKey.threw THEN DiscoveryThrew
             ELSE parseKeyAnnouncement(tx.note, ed25519PublicKey.value)

\* The loop of discoverEncryptionKey from transaction i on.
RECURSIVE discoverEncryptionKeyFrom(_, _, _)
discoverEncryptionKeyFrom(transactions, address, i) ==
    IF i > Len(transactions) THEN NotDiscovered
    ELSE LET tx == transactions[i]
             ed25519PublicKey == decodeAlgorandAddress(address)
             key == parseKeyAnnouncement(tx.note, ed25519PublicKey.value)
         IN  IF tx.sender # address
             THEN discoverEncryptionKeyFrom(transactions, address, i + 1)
             ELSE IF tx.receiver # address
             THEN discoverEncryptionKeyFrom(transactions, address, i + 1)
             ELSE IF ~tx.hasNote \/ Len(tx.note) < 32
             THEN discoverEncryptionKeyFrom(transactions, address, i + 1)
             ELSE IF ed25519PublicKey.threw THEN DiscoveryThrew
             ELSE IF key # NotDiscovered THEN key
             ELSE discoverEncryptionKeyFrom(transactions, address, i + 1)

discoverEncryptionKey(transactions, address) ==
    discoverEncryptionKeyFrom(transactions, address, 1)

\* The loop of discoverEncryptionKeyFromMessages from transaction i on.
RECURSIVE discoverEncryptionKeyFromMessagesFrom(_, _, _)
discoverEncryptionKeyFromMessagesFrom(transactions, address, i) ==
    IF i > Len(transactions) THEN NotDiscovered
    ELSE LET tx == transactions[i]
             envelope == decodeEnvelope(tx.note)
         IN  IF tx.sender # address
             THEN discoverEncryptionKeyFromMessagesFrom(transactions, address, i + 1)
             ELSE IF ~tx.hasNote \/ Len(tx.note) = 0
             THEN discoverEncryptionKeyFromMessagesFrom(transactions, address, i + 1)
             ELSE IF ~isChatMessage(tx.note)
             THEN discoverEncryptionKeyFromMessagesFrom(transactions, address, i + 1)
             ELSE IF envelope.ok
             THEN Discovered(envelope.env.senderPublicKey, FALSE)
             ELSE discoverEncryptionKeyFromMessagesFrom(transactions, address, i + 1)

discoverEncryptionKeyFromMessages(transactions, address) ==
    discoverEncryptionKeyFromMessagesFrom(transactions, address, 1)

\* Mutant: a chat note that does not decode ends the search.
RECURSIVE findPublicKeyFromFirstChatNote(_, _, _)
findPublicKeyFromFirstChatNote(transactions, address, i) ==
    IF i > Len(transactions) THEN PublicKeyNotFoundError(address)
    ELSE LET tx == transactions[i]
             envelope == decodeEnvelope(tx.note)
         IN  IF tx.sender # address
             THEN findPublicKeyFromFirstChatNote(transactions, address, i + 1)
             ELSE IF ~tx.hasNote \/ Len(tx.note) < 2
             THEN findPublicKeyFromFirstChatNote(transactions, address, i + 1)
             ELSE IF ~isChatMessage(tx.note)
             THEN findPublicKeyFromFirstChatNote(transactions, address, i + 1)
             ELSE IF envelope.ok
             THEN Discovered(envelope.env.senderPublicKey, TRUE)
             ELSE PublicKeyNotFoundError(address)

\* The loop of MessageIndexer.findPublicKey from transaction i on.
RECURSIVE findPublicKeyFrom(_, _, _)
findPublicKeyFrom(transactions, address, i) ==
    IF i > Len(transactions) THEN PublicKeyNotFoundError(address)
    ELSE LET tx == transactions[i]
             envelope == decodeEnvelope(tx.note)
         IN  IF tx.sender # address
             THEN findPublicKeyFrom(transactions, address, i + 1)
             ELSE IF ~tx.hasNote \/ Len(tx.note) < 2
             THEN findPublicKeyFrom(transactions, address, i + 1)
             ELSE IF ~isChatMessage(tx.note)
             THEN findPublicKeyFrom(transactions, address, i + 1)
             ELSE IF envelope.ok
             THEN Discovered(envelope.env.senderPublicKey, TRUE)
             ELSE findPublicKeyFrom(transactions, address, i + 1)

findPublicKey(transactions, address) ==
    findPublicKeyFrom(transactions, address, 1)

(***************************************************************************)
(* Inputs of the discovery functions                                       *)
(***************************************************************************)
\* A key announcement: the key alone, or the key and a signature over it.
UnsignedAnnouncement(key) == key
SignedAnnouncement(key, signer) == key \o signEncryptionKey(key, SigningKey(signer))

\* An encoded chat envelope whose senderPublicKey is the given key.
EnvelopeNote(key) ==
    encodeEnvelope([ version            |-> VERSION,
                     protocolId         |-> PROTOCOL_ID,
                     senderPublicKey    |-> key,
                     ephemeralPublicKey |-> Ramp(32, 3),
                     nonce              |-> Ramp(12, 5),
                     encryptedSenderKey |-> Ramp(48, 7),
                     ciphertext         |-> Ramp(TAG_SIZE + 2, 11) ])

\* The two header bytes of a chat envelope and nothing that decodes.
TruncatedEnvelopeNote == << VERSION, PROTOCOL_ID, 0, 0 >>

Notes ==
    { UnsignedAnnouncement(EncryptionKeyBytes("OTHER_ADDRESS")),
      SignedAnnouncement(EncryptionKeyBytes("SENDER_ADDRESS"), "SENDER_ADDRESS"),
      SignedAnnouncement(EncryptionKeyBytes("SENDER_ADDRESS"), "OTHER_ADDRESS"),
      EnvelopeNote(EncryptionKeyBytes("SENDER_ADDRESS")),
      TruncatedEnvelopeNote,
      << VERSION >>,
      << >> }

\* Notes for parseKeyAnnouncement: those above, a note one byte short of a key,
\* a signed announcement cut one byte short and one with a byte after it, and
\* a key followed by 64 bytes that are no signature.
AnnouncementNotes ==
    Notes \cup
    { Ramp(31, 1),
      Slice(SignedAnnouncement(EncryptionKeyBytes("SENDER_ADDRESS"), "SENDER_ADDRESS"), 0, 95),
      SignedAnnouncement(EncryptionKeyBytes("SENDER_ADDRESS"), "SENDER_ADDRESS") \o << 0 >>,
      EncryptionKeyBytes("SENDER_ADDRESS") \o [ i \in 1..ED25519_SIGNATURE_SIZE |-> 255 ] }

\* The ed25519PublicKey argument: left out, an account's key, or a key one
\* byte short.
KeyArguments ==
    { NoKey, Ed25519PublicKey("SENDER_ADDRESS"), Ed25519PublicKey("OTHER_ADDRESS"),
      Slice(Ed25519PublicKey("SENDER_ADDRESS"), 0, 31) }

\* NoteTransaction: sender, receiver and the optional note.
Transaction(sender, receiver, hasNote, noteBytes) ==
    [ sender |-> sender, receiver |-> receiver, hasNote |-> hasNote, note |-> noteBytes ]

Transactions ==
    { Transaction(s, r, TRUE, n) : s \in Accounts, r \in Accounts, n \in Notes }
    \cup { Transaction(s, r, FALSE, << >>) : s \in Accounts, r \in Accounts }
    \cup { Transaction(MalformedAddress, MalformedAddress, TRUE, n) : n \in Notes }

\* The UTF-8 length of JSON.stringify({ type: 'key-publish' }).
KeyPublishPayloadSize == 22

\* AlgorandService.publishKey: the zero-amount self-payment it sends, whose
\* note is the encoded envelope of the key-publish payload encrypted to the
\* account itself.  The envelope's random and encrypted fields are bytes of
\* their lengths.
publishKey(address) ==
    Transaction(address, address, TRUE,
                encodeEnvelope([ version            |-> VERSION,
                                 protocolId         |-> PROTOCOL_ID,
                                 senderPublicKey    |-> EncryptionKeyBytes(address),
                                 ephemeralPublicKey |-> Ramp(32, 3),
                                 nonce              |-> Ramp(12, 5),
                                 encryptedSenderKey |-> Ramp(48, 7),
                                 ciphertext         |-> Ramp(KeyPublishPayloadSize + TAG_SIZE, 11) ]))

NoDiscovery == [ by |-> "none", address |-> "", arg |-> << >>, res |-> NotDiscovered ]

DiscoveryIdle ==
    /\ ledger = << >>
    /\ found = NoDiscovery

\* ---------------------------------------------------------------------------
\* SendQueue and SyncManager.  The queue is an array of pending messages; the
\* manager's asynchronous methods run to their next await in one step, and
\* each pending service call completes in a step of its own.

\* The maxQueueSize the SendQueue is constructed with.
maxQueueSize == 2

\* maxRetries when the enqueue options give none.
DEFAULT_MAX_RETRIES == 3

\* The largest maxRetries an enqueue option gives, and how many sync() calls
\* are in flight at a time.
MaxRetriesOption == 0
MaxSyncs == 2

\* options.maxRetries left out.
NoMaxRetries == -1

\* What sending a message's content runs into inside the service, before any
\* network call: nothing, or the error encryptMessage throws for content over
\* the payload limit.
Faults == { "none", "MESSAGE_TOO_LARGE" }

\* ChatError.isRetryable, by error code.
isRetryable(code) ==
    code \in { "NETWORK_ERROR", "TIMEOUT", "INDEXER_ERROR", "CONFIRMATION_TIMEOUT" }

\* How a service call for a message can end: with the message's fault, or, for
\* content that encrypts, with a transaction id or a network error.
Outcomes(message) ==
    IF message.fault # "none" THEN { message.fault } ELSE { "sent", "NETWORK_ERROR" }

\* The PendingMessage that enqueue builds.  sends, ended and expired are
\* history: the service calls made for the message, how many of them have
\* returned or thrown, and the onMessageExpired callbacks fired for it;
\* queuedWhile is the manager's state when it was queued.
PendingMessage(retries, fault, queuedWhile) ==
    [ status      |-> "queued",
      retryCount  |-> 0,
      maxRetries  |-> IF retries = NoMaxRetries THEN DEFAULT_MAX_RETRIES ELSE retries,
      fault       |-> fault,
      lastError   |-> "",
      sends       |-> 0,
      ended       |-> 0,
      expired     |-> 0,
      queuedWhile |-> queuedWhile ]

\* SendQueue.enqueue's guard: the queue holds maxQueueSize messages.
isFull(msgs) == Len(msgs) >= maxQueueSize

\* SendQueue.enqueue, for a queue that is not full.
enqueue(msgs, retries, fault, queuedWhile) ==
    Append(msgs, PendingMessage(retries, fault, queuedWhile))

\* SendQueue.dequeue: the first queued message (its index), 0 for undefined.
dequeue(msgs) ==
    IF \E i \in 1..Len(msgs) : msgs[i].status = "queued"
    THEN CHOOSE i \in 1..Len(msgs) :
            /\ msgs[i].status = "queued"
            /\ \A j \in 1..(i - 1) : msgs[j].status # "queued"
    ELSE 0

\* Mutant: markSending counts the attempt and leaves the status as it was.
markSendingStatusKept(msgs, id) ==
    [ msgs EXCEPT ![id].retryCount = @ + 1 ]

\* SendQueue.markSending.
markSending(msgs, id) ==
    [ msgs EXCEPT ![id].status = "sending", ![id].retryCount = @ + 1 ]

\* SendQueue.markSent.
markSent(msgs, id) ==
    [ msgs EXCEPT ![id].status = "sent", ![id].lastError = "" ]

\* Mutant: a message expires only when its retry count exceeds maxRetries.
markFailedAfterOneMore(msgs, id, error) ==
    IF msgs[id].retryCount > msgs[id].maxRetries
    THEN [ msgs EXCEPT ![id].lastError = error, ![id].status = "failed",
                       ![id].expired = @ + 1 ]
    ELSE [ msgs EXCEPT ![id].lastError = error, ![id].status = "queued" ]

\* SendQueue.markFailed.
markFailed(msgs, id, error) ==
    IF msgs[id].retryCount >= msgs[id].maxRetries
    THEN [ msgs EXCEPT ![id].lastError = error, ![id].status = "failed",
                       ![id].expired = @ + 1 ]
    ELSE [ msgs EXCEPT ![id].lastError = error, ![id].status = "queued" ]

\* SendQueue.retryFailed: the messages it resets, the queue after it, and the
\* count it returns.
Retried(msgs) ==
    { i \in 1..Len(msgs) :
        msgs[i].status = "failed" /\ msgs[i].retryCount < msgs[i].maxRetries }

retryFailed(msgs) ==
    [ i \in 1..Len(msgs) |->
        IF i \in Retried(msgs) THEN [ msgs[i] EXCEPT !.status = "queued" ] ELSE msgs[i] ]

retryFailedCount(msgs) == Cardinality(Retried(msgs))

\* SyncManager.setState.
setState(mgr, syncState) == [ mgr EXCEPT !.state = syncState ]

\* Mutant: a processQueue loop that goes on whether online or not.
processQueueOffline(msgs, online) ==
    LET pending == dequeue(msgs)
    IN  IF pending # 0
        THEN [ messages |-> [ markSending(msgs, pending) EXCEPT ![pending].sends = @ + 1 ],
               pending  |-> pending ]
        ELSE [ messages |-> msgs, pending |-> 0 ]

\* SyncManager.processQueue from the head of its loop to the next await: the
\* queue after it and the message whose send it awaits, 0 when the loop ended.
processQueue(msgs, online) ==
    LET pending == dequeue(msgs)
    IN  IF online /\ pending # 0
        THEN [ messages |-> [ markSending(msgs, pending) EXCEPT ![pending].sends = @ + 1 ],
               pending  |-> pending ]
        ELSE [ messages |-> msgs, pending |-> 0 ]

\* Mutant: the finally clause of sync sets 'idle' whatever the online flag.
fetchAllConversationsThenIdle(mgr, fetches) ==
    IF mgr.conversations
    THEN [ manager |-> mgr, fetching |-> fetches + 1 ]
    ELSE [ manager |-> setState(mgr, "idle"), fetching |-> fetches ]

\* SyncManager.sync from the end of its processQueue on: with a conversation
\* to fetch it awaits the fetch; with none it runs to its finally clause.
fetchAllConversations(mgr, fetches) ==
    IF mgr.conversations
    THEN [ manager |-> mgr, fetching |-> fetches + 1 ]
    ELSE [ manager  |-> setState(mgr, IF mgr.isOnline THEN "idle" ELSE "offline"),
           fetching |-> fetches ]

\* The manager and the calls it awaits.
Running(mgr, msgs, sends, fetches) ==
    [ manager |-> mgr, messages |-> msgs, sending |-> sends, fetching |-> fetches ]

\* Mutant: a sync that leaves the send queue alone (config.processQueue false).
syncWithoutQueue(mgr, msgs, sends, fetches) ==
    IF ~mgr.isOnline THEN Running(mgr, msgs, sends, fetches)
    ELSE LET fetch == fetchAllConversations(setState(mgr, "syncing"), fetches)
         IN  Running(fetch.manager, msgs, sends, fetch.fetching)

\* SyncManager.sync up to its first await.
sync(mgr, msgs, sends, fetches) ==
    IF ~mgr.isOnline THEN Running(mgr, msgs, sends, fetches)
    ELSE LET run == processQueue(msgs, TRUE)
             fetch == fetchAllConversations(setState(mgr, "syncing"), fetches)
         IN  IF run.pending # 0
             THEN Running(setState(mgr, "syncing"), run.messages,
                          sends \cup { [ id |-> run.pending, inSync |-> TRUE ] }, fetches)
             ELSE Running(fetch.manager, msgs, sends, fetch.fetching)

\* The manager after construction: online, idle, no timer, no conversation.
NoCall == [ op |-> "none", failedBefore |-> 0, ret |-> 0, error |-> "" ]

QueueIdle ==
    /\ messages = << >>
    /\ manager = [ isOnline |-> TRUE, state |-> "idle", syncTimer |-> FALSE,
                   conversations |-> FALSE ]
    /\ sending = { }
    /\ fetching = 0
    /\ lastCall = NoCall

\* ---------------------------------------------------------------------------
\* SyncManager.syncConversation for one participant.  A message is its id,
\* its timestamp.getTime() and its confirmedRound; the time of a message is
\* the time of its round.

\* How many chat messages with the participant get confirmed.
MaxIndexed == 3

\* The rounds they are confirmed in.
Rounds == { 1, 2 }

\* The syncConversation calls that can await their fetch at a time.
Fetchers == { 1, 2 }

IndexedMessage(id, round) == [ id |-> id, timestamp |-> round, round |-> round ]

\* AlgorandService.fetchMessages for the participant: the indexer's
\* transactions, from round afterRound on when afterRound is given and not 0
\* (the indexer's min-round is inclusive), sorted by timestamp.
fetchMessages(transactions, afterRound) ==
    SortByTimestamp(SelectSeq(transactions,
                              LAMBDA m : IF afterRound # 0 THEN m.round >= afterRound ELSE TRUE))

\* messages.reduce((max, m) => round > max ? round : max, 0)
MaxRoundOf(batch) ==
    IF batch = << >> THEN 0
    ELSE CHOOSE r \in { batch[i].round : i \in 1..Len(batch) } :
            \A i \in 1..Len(batch) : batch[i].round <= r

\* The messages syncConversation passes to onMessagesReceived.
Received(before, batch) == batch

\* SyncManager.syncConversation from the return of fetchMessages on: the
\* Conversation after it and the onMessagesReceived calls so far.
syncConversation(conv, batch, calls) ==
    IF Len(batch) > 0
    THEN LET merged == merge(conv.messages, batch)
         IN  [ synced   |-> [ messages |-> merged.messages,
                              lastFetchedRound |-> MaxRoundOf(batch) ],
               listener |-> IF merged.returned > 0
                            THEN Append(calls,
                                        [ messages |-> Received(conv.messages, batch),
                                          added    |-> Ids(merged.messages) \ Ids(conv.messages) ])
                            ELSE calls ]
    ELSE [ synced |-> conv, listener |-> calls ]

NoFetch == [ pending |-> FALSE, messages |-> << >> ]

SyncIdle ==
    /\ indexed = << >>
    /\ synced = [ messages |-> << >>, lastFetchedRound |-> 0 ]
    /\ fetchCalls = [ f \in Fetchers |-> NoFetch ]
    /\ listener = << >>

InitPSK ==
    /\ PSKIdle
    /\ CodecIdle
    /\ CryptoIdle
    /\ DiscoveryIdle
    /\ QueueIdle
    /\ SyncIdle
    /\ ExchangeIdle
    /\ StoreIdle
    /\ AeadIdle
    /\ ChannelIdle
    /\ RatchetIdle

\* state = recordReceive(state, c)
RecordReceive ==
    \E c \in CounterInputs :
        /\ state' = recordReceive(state, c)
        /\ recorded' = recorded \cup {c}
        /\ lastValidate' = NoValidate
        /\ pskCall' = [ op |-> "recordReceive", before |-> state,
                        after |-> recordReceiveArgument(state, c) ]
        /\ UNCHANGED sentCounters
        /\ UNCHANGED notPSK

\* state = advanceSendCounter(state).state
AdvanceSendCounter ==
    /\ Len(sentCounters) < MaxSend
    /\ state' = advanceSendCounter(state).state
    /\ sentCounters' = Append(sentCounters, advanceSendCounter(state).counter)
    /\ lastValidate' = NoValidate
    /\ pskCall' = [ op |-> "advanceSendCounter", before |-> state,
                    after |-> advanceSendCounterArgument(state) ]
    /\ UNCHANGED recorded
    /\ UNCHANGED notPSK

\* validateCounter(state, c): the state passed in is left as it is
ValidateCounter ==
    \E c \in ProbeInputs :
        /\ lastValidate' = [ counter |-> c, ok |-> validateCounter(state, c), made |-> TRUE ]
        /\ pskCall' = [ op |-> "validateCounter", before |-> state,
                        after |-> validateCounterArgument(state, c) ]
        /\ UNCHANGED <<state, recorded, sentCounters>>
        /\ UNCHANGED notPSK

NextPSK ==
    \/ RecordReceive
    \/ AdvanceSendCounter
    \/ ValidateCounter

SpecPSK == InitPSK /\ [][NextPSK]_vars

(***************************************************************************)
(* Claims about the replay window                                          *)
(***************************************************************************)

\* C2: a counter that recordReceive has recorded is rejected by validateCounter
\* in the state returned and in every later state, also once it has been
\* pruned from seenCounters; so no counter is accepted twice.
C2_RecordedNeverValid ==
    /\ \A c \in recorded : ~validateCounter(state, c)
    /\ (lastValidate.made /\ lastValidate.counter \in recorded) => ~lastValidate.ok

\* C2 witness: a recorded counter that has been pruned was validated (and rejected).
C2_Witness ==
    /\ lastValidate.made
    /\ lastValidate.counter \in recorded
    /\ lastValidate.counter \notin state.seenCounters

\* The window condition of the specification, stated as a distance.
InWindow(c, last) ==
    (IF c >= last THEN c - last ELSE last - c) <= 200

\* C3: validateCounter(state, c) is true exactly when c is not in seenCounters
\* and peerLastCounter - 200 <= c <= peerLastCounter + 200; a fresh state
\* accepts 0 .. 200 and rejects 201.
C3_ValidateIffWindow ==
    /\ lastValidate.made =>
         (lastValidate.ok <=>
            /\ lastValidate.counter \notin state.seenCounters
            /\ InWindow(lastValidate.counter, state.peerLastCounter))
    /\ \A c \in 0..200 : validateCounter(createPSKState, c)
    /\ ~validateCounter(createPSKState, 201)
    /\ \A c \in ProbeInputs :
         c < state.peerLastCounter - 200 => ~validateCounter(state, c)

\* C3 witness: an unseen counter below the window was validated and rejected.
C3_Witness ==
    /\ lastValidate.made
    /\ ~lastValidate.ok
    /\ lastValidate.counter \notin state.seenCounters
    /\ lastValidate.counter < state.peerLastCounter - 200
    /\ lastValidate.counter >= 0

\* C4: every member s of seenCounters satisfies
\* peerLastCounter - 200 <= s <= peerLastCounter.
C4_SeenWithinWindow ==
    \A s \in state.seenCounters :
        /\ state.peerLastCounter - 200 <= s
        /\ s <= state.peerLastCounter

\* C4 witness: recordReceive has pruned a counter and kept others.
C4_Witness ==
    /\ recorded \ state.seenCounters # {}
    /\ Cardinality(state.seenCounters) >= 2

(***************************************************************************)
(* The codecs as a state machine: an envelope is encoded to a note, or a   *)
(* note arrives from the ledger, and a decoder is applied to the note.     *)
(***************************************************************************)
InitCodec ==
    /\ PSKIdle
    /\ CodecIdle
    /\ CryptoIdle
    /\ DiscoveryIdle
    /\ QueueIdle
    /\ SyncIdle
    /\ ExchangeIdle
    /\ StoreIdle
    /\ AeadIdle
    /\ ChannelIdle
    /\ RatchetIdle

\* Nothing has been encoded or received yet.
CodecFresh == srcEnvelope = NoEnvelope /\ note = NoNote /\ decoded = NoDecode

\* note = encodeEnvelope(E)
EncodeEnvelope ==
    \E E \in StandardEnvelopes :
        /\ CodecFresh
        /\ srcEnvelope' = [ kind |-> "standard", env |-> E ]
        /\ note' = encodeEnvelope(E)
        /\ decoded' = NoDecode
        /\ UNCHANGED notCodec

\* note = encodePSKEnvelope(E)
EncodePSKEnvelope ==
    \E E \in PSKEnvelopes :
        /\ CodecFresh
        /\ srcEnvelope' = [ kind |-> "psk", env |-> E ]
        /\ note' = encodePSKEnvelope(E)
        /\ decoded' = NoDecode
        /\ UNCHANGED notCodec

\* a transaction note read from the ledger
ReceiveNote ==
    \E n \in RawNotes :
        /\ CodecFresh
        /\ srcEnvelope' = NoEnvelope
        /\ note' = n
        /\ decoded' = NoDecode
        /\ UNCHANGED notCodec

\* decodeEnvelope(note): an envelope, or EnvelopeError thrown
DecodeEnvelope ==
    /\ decoded.by = "none"
    /\ decoded' = [ by |-> "standard", ok |-> decodeEnvelope(note).ok,
                    res |-> decodeEnvelope(note) ]
    /\ UNCHANGED <<srcEnvelope, note>>
    /\ UNCHANGED notCodec

\* decodePSKEnvelope(note): an envelope, or PSKEnvelopeError thrown
DecodePSKEnvelope ==
    /\ decoded.by = "none"
    /\ decoded' = [ by |-> "psk", ok |-> decodePSKEnvelope(note).ok,
                    res |-> decodePSKEnvelope(note) ]
    /\ UNCHANGED <<srcEnvelope, note>>
    /\ UNCHANGED notCodec

NextCodec ==
    \/ EncodeEnvelope
    \/ EncodePSKEnvelope
    \/ ReceiveNote
    \/ DecodeEnvelope
    \/ DecodePSKEnvelope

SpecCodec == InitCodec /\ [][NextCodec]_vars

(***************************************************************************)
(* Claims about the codecs                                                 *)
(***************************************************************************)

\* C6: for every valid envelope E, decodeEnvelope(encodeEnvelope(E)) = E and
\* decodePSKEnvelope(encodePSKEnvelope(E)) = E field by field, for every
\* ratchetCounter from 0 to 0xFFFFFFFF.
C6_EncodeDecodeRoundTrip ==
    (srcEnvelope.kind # "none" /\ decoded.by = srcEnvelope.kind) =>
        /\ decoded.ok
        /\ decoded.res.env = srcEnvelope.env
        /\ decoded.res.env.senderPublicKey = srcEnvelope.env.senderPublicKey
        /\ decoded.res.env.ephemeralPublicKey = srcEnvelope.env.ephemeralPublicKey
        /\ decoded.res.env.nonce = srcEnvelope.env.nonce
        /\ decoded.res.env.encryptedSenderKey = srcEnvelope.env.encryptedSenderKey
        /\ decoded.res.env.ciphertext = srcEnvelope.env.ciphertext
        /\ decoded.by = "psk" =>
             decoded.res.env.ratchetCounter = srcEnvelope.env.ratchetCounter

\* C6 witness: a PSK envelope whose counter has its top bit set went through
\* encodePSKEnvelope and decodePSKEnvelope.
C6_Witness ==
    /\ srcEnvelope.kind = "psk"
    /\ decoded.by = "psk"
    /\ srcEnvelope.env.ratchetCounter.hi >= 32768
    /\ Len(srcEnvelope.env.ciphertext) > 16

\* C7: no byte string satisfies both isChatMessage and isPSKMessage.
C7_DiscriminatorsDisjoint ==
    ~(isChatMessage(note) /\ isPSKMessage(note))

\* C7 witness: notes of each kind are at hand, here a PSK one read from the ledger.
C7_Witness ==
    /\ isPSKMessage(note)
    /\ srcEnvelope.kind = "none"

\* What C8 says each decoder rejects.
StandardRejects(data) ==
    \/ Len(data) < 2
    \/ data[1] # 1
    \/ data[2] # 1
    \/ Len(data) < 142

PSKRejects(data) ==
    \/ Len(data) < 2
    \/ data[1] # 1
    \/ data[2] # 2
    \/ Len(data) < 146

\* C8: decodeEnvelope rejects its input exactly when its length is below 2,
\* byte 0 is not 0x01, byte 1 is not 0x01 or its length is below 142, and
\* decodePSKEnvelope exactly when the length is below 2, byte 0 is not 0x01,
\* byte 1 is not 0x02 or the length is below 146.
C8_DecodeRejectsExactly ==
    /\ decoded.by = "standard" => (~decoded.ok <=> StandardRejects(note))
    /\ decoded.by = "psk" => (~decoded.ok <=> PSKRejects(note))

\* C8 witness: a note with the right leading bytes and one byte too few was
\* rejected by decodePSKEnvelope.
C8_Witness ==
    /\ decoded.by = "psk"
    /\ ~decoded.ok
    /\ Len(note) = 145
    /\ note[1] = 1
    /\ note[2] = 2

(***************************************************************************)
(* The encryptors and decryptors as a state machine: one message is sealed *)
(* (or refused) and the envelope is then opened by one of the identities.  *)
(***************************************************************************)
InitCrypto ==
    /\ PSKIdle
    /\ CodecIdle
    /\ CryptoIdle
    /\ DiscoveryIdle
    /\ QueueIdle
    /\ SyncIdle
    /\ ExchangeIdle
    /\ StoreIdle
    /\ AeadIdle
    /\ ChannelIdle
    /\ RatchetIdle

\* encryptMessage(m, S.publicKey, R.publicKey)
EncryptMessage ==
    \E m \in StandardPlaintexts, s \in Identities, r \in Identities :
        /\ sealed.kind = "none"
        /\ LET res == encryptMessage(m, Identity(s).publicKey, Identity(r).publicKey,
                                     Undefined, rng)
           IN  /\ sealed' = [ kind |-> "standard", res |-> res, plaintext |-> m,
                              sender |-> s, recipient |-> r, psk |-> 0, counter |-> 0,
                              drawsBefore |-> rng, reply |-> << >> ]
               /\ rng' = rng + res.draws
        /\ opened' = NoOpen
        /\ UNCHANGED notCrypto

\* encryptReply(text, txid, preview, S.publicKey, R.publicKey)
EncryptReply ==
    \E text \in ReplyTexts, txid \in ReplyTxids, preview \in ReplyPreviews,
       s \in Identities, r \in Identities :
        /\ sealed.kind = "none"
        /\ LET res == encryptReply(text, txid, preview, Identity(s).publicKey,
                                   Identity(r).publicKey, Undefined, rng)
           IN  /\ sealed' = [ kind |-> "reply", res |-> res,
                              plaintext |-> ReplyPayload(text, txid, preview),
                              sender |-> s, recipient |-> r, psk |-> 0, counter |-> 0,
                              drawsBefore |-> rng, reply |-> << text, txid, preview >> ]
               /\ rng' = rng + res.draws
        /\ opened' = NoOpen
        /\ UNCHANGED notCrypto

\* encryptPSKMessage(m, S.publicKey, R.publicKey, derivePSKAtCounter(psk, c), c)
EncryptPSKMessage ==
    \E m \in PSKPlaintexts, s \in Identities, r \in Identities,
       p \in PSKs, c \in PSKCounters :
        /\ sealed.kind = "none"
        /\ LET res == encryptPSKMessage(m, Identity(s).publicKey, Identity(r).publicKey,
                                        derivePSKAtCounter(InitialPSK(p), c), c, rng)
           IN  /\ sealed' = [ kind |-> "psk", res |-> res, plaintext |-> m,
                              sender |-> s, recipient |-> r, psk |-> p, counter |-> c,
                              drawsBefore |-> rng, reply |-> << >> ]
               /\ rng' = rng + res.draws
        /\ opened' = NoOpen
        /\ UNCHANGED notCrypto

\* decryptMessage(envelope, who.privateKey, who.publicKey)
DecryptMessage ==
    \E who \in Identities :
        /\ sealed.kind \in { "standard", "reply" }
        /\ sealed.res.ok
        /\ opened.by = 0
        /\ opened' = [ by |-> who, psk |-> 0, counter |-> 0,
                       res |-> decryptMessage(sealed.res.env, Identity(who).privateKey,
                                              Identity(who).publicKey, Undefined) ]
        /\ UNCHANGED <<rng, sealed>>
        /\ UNCHANGED notCrypto

\* decryptPSKMessage(envelope, who.privateKey, who.publicKey, derivePSKAtCounter(psk, c))
DecryptPSKMessage ==
    \E who \in Identities, p \in PSKs, c \in PSKCounters :
        /\ sealed.kind = "psk"
        /\ sealed.res.ok
        /\ opened.by = 0
        /\ opened' = [ by |-> who, psk |-> p, counter |-> c,
                       res |-> decryptPSKMessage(sealed.res.env, Identity(who).privateKey,
                                                 Identity(who).publicKey,
                                                 derivePSKAtCounter(InitialPSK(p), c)) ]
        /\ UNCHANGED <<rng, sealed>>
        /\ UNCHANGED notCrypto

NextCrypto ==
    \/ EncryptMessage
    \/ EncryptReply
    \/ EncryptPSKMessage
    \/ DecryptMessage
    \/ DecryptPSKMessage

SpecCrypto == InitCrypto /\ [][NextCrypto]_vars

(***************************************************************************)
(* Claims about sealing and opening                                        *)
(***************************************************************************)
RECURSIVE SumRange(_, _, _)
SumRange(f, lo, hi) ==
    IF lo > hi THEN 0
    ELSE IF lo = hi THEN f[lo]
    ELSE LET mid == (lo + hi) \div 2
         IN  SumRange(f, lo, mid) + SumRange(f, mid + 1, hi)

PairedHigh(s, i) == IsHighSurrogate(s[i]) /\ i < Len(s) /\ IsLowSurrogate(s[i + 1])
PairedLow(s, i) == IsLowSurrogate(s[i]) /\ i > 1 /\ IsHighSurrogate(s[i - 1])

\* |utf8(s)|: 1, 2 or 3 bytes for a character of the basic plane (3 for the
\* replacement of an unpaired surrogate), 4 for a surrogate pair.
Utf8Size(s) ==
    SumRange([ i \in 1..Len(s) |->
                 IF PairedHigh(s, i) THEN 4
                 ELSE IF PairedLow(s, i) THEN 0
                 ELSE IF s[i] < 128 THEN 1
                 ELSE IF s[i] < 2048 THEN 2
                 ELSE 3 ], 1, Len(s))

\* No unpaired surrogate.
WellFormed(s) ==
    \A i \in 1..Len(s) :
        (IsHighSurrogate(s[i]) => PairedHigh(s, i)) /\ (IsLowSurrogate(s[i]) => PairedLow(s, i))

\* A text that the decryptors read as a JSON payload: it begins with '{',
\* parses, and has type "key-publish" or a string member text.
JsonPayload(s) ==
    /\ Len(s) >= 1
    /\ s[1] = 123
    /\ JSONParse(s).ok
    /\ \/ Member(JSONParse(s).val, KeyType) = JString(KeyPublishValue)
       \/ Member(JSONParse(s).val, KeyText).t = "string"

\* A plaintext that is returned as it is: well-formed, no leading byte order
\* mark, not a JSON payload.
PlainMessage(s) ==
    /\ WellFormed(s)
    /\ ~(Len(s) >= 1 /\ s[1] = 65279)
    /\ ~JsonPayload(s)

OpenedByParty == opened.by # 0 /\ opened.by \in { sealed.sender, sealed.recipient }

ReturnsPlaintext == opened.res.kind = "content" /\ opened.res.text = sealed.plaintext

\* C1 as stated: for all identities S and R and every plaintext m of at most
\* 882 UTF-8 bytes, decryptMessage(encryptMessage(m, S.pub, R.pub)) returns
\* text m both for R and for S.
C1_Original ==
    (sealed.kind = "standard" /\ Utf8Size(sealed.plaintext) <= 882) =>
        /\ sealed.res.ok
        /\ OpenedByParty => ReturnsPlaintext

\* C1 amended: the same for every such plaintext that is well-formed UTF-16,
\* does not begin with U+FEFF and is not a JSON payload (a text beginning
\* with '{' that parses as JSON with type "key-publish" or a string text).
C1_SealOpenRoundTrip ==
    (sealed.kind = "standard" /\ Utf8Size(sealed.plaintext) <= 882
        /\ PlainMessage(sealed.plaintext)) =>
        /\ sealed.res.ok
        /\ OpenedByParty => ReturnsPlaintext

\* C1 witness: a plaintext of exactly 882 bytes came back to the sender, who
\* is not the recipient.
C1_Witness ==
    /\ sealed.kind = "standard"
    /\ Utf8Size(sealed.plaintext) = 882
    /\ sealed.sender # sealed.recipient
    /\ opened.by = sealed.sender
    /\ ReturnsPlaintext

SamePSK == opened.psk = sealed.psk /\ opened.counter = sealed.counter

\* C9 as stated: for every plaintext m of at most 878 UTF-8 bytes,
\* decryptPSKMessage of encryptPSKMessage(m, S.pub, R.pub, psk, counter)
\* returns text m for R and for S under the same psk, and fails under the PSK
\* of a different counter or of a different initial PSK.
C9_Original ==
    (sealed.kind = "psk" /\ Utf8Size(sealed.plaintext) <= 878) =>
        /\ sealed.res.ok
        /\ OpenedByParty =>
             IF SamePSK THEN ReturnsPlaintext ELSE opened.res.kind = "error"

\* C9 amended: text m is returned for every such plaintext that is
\* well-formed UTF-16, does not begin with U+FEFF and is not a JSON payload;
\* under another counter's or another initial PSK's key decryption fails for
\* every plaintext.
C9_PSKSealOpenRoundTrip ==
    (sealed.kind = "psk" /\ Utf8Size(sealed.plaintext) <= 878) =>
        /\ sealed.res.ok
        /\ OpenedByParty =>
             /\ (SamePSK /\ PlainMessage(sealed.plaintext)) => ReturnsPlaintext
             /\ SamePSK => opened.res.kind # "error"
             /\ ~SamePSK => opened.res.kind = "error"

\* C9 witness: the sender was refused its own envelope under the key of
\* another counter of the same initial PSK.
C9_Witness ==
    /\ sealed.kind = "psk"
    /\ opened.by = sealed.sender
    /\ opened.psk = sealed.psk
    /\ opened.counter # sealed.counter
    /\ opened.res.kind = "error"

\* C10: encryptMessage rejects a plaintext of more than 882 UTF-8 bytes and
\* encryptPSKMessage one of more than 878, both accept a plaintext of exactly
\* the limit, and a rejection draws nothing from the random source.
C10_SizeLimit ==
    /\ sealed.kind = "standard" => (sealed.res.ok <=> Utf8Size(sealed.plaintext) <= 882)
    /\ sealed.kind = "psk" => (sealed.res.ok <=> Utf8Size(sealed.plaintext) <= 878)
    /\ (sealed.kind # "none" /\ ~sealed.res.ok) =>
         /\ rng = sealed.drawsBefore
         /\ sealed.res.draws = 0

\* C10 witness: a plaintext of 442 characters and 884 bytes was rejected.
C10_Witness ==
    /\ sealed.kind = "standard"
    /\ ~sealed.res.ok
    /\ Len(sealed.plaintext) < 882
    /\ rng = 0

(***************************************************************************)
(* Key discovery as a state machine: transactions reach the indexer, then  *)
(* one of the discovery functions searches them for an address's key.      *)
(***************************************************************************)
InitDiscovery ==
    /\ PSKIdle
    /\ CodecIdle
    /\ CryptoIdle
    /\ DiscoveryIdle
    /\ QueueIdle
    /\ SyncIdle
    /\ ExchangeIdle
    /\ StoreIdle
    /\ AeadIdle
    /\ ChannelIdle
    /\ RatchetIdle

\* A transaction is confirmed; searchTransactions returns it after the others.
ConfirmTransaction ==
    \E tx \in Transactions :
        /\ found.by = "none"
        /\ Len(ledger) < MaxTransactions
        /\ ledger' = Append(ledger, tx)
        /\ UNCHANGED found
        /\ UNCHANGED notDiscovery

\* AlgorandService.publishKey(chatAccount): its transaction is confirmed.
PublishKey ==
    \E account \in Accounts :
        /\ found.by = "none"
        /\ Len(ledger) < MaxTransactions
        /\ ledger' = Append(ledger, publishKey(account))
        /\ UNCHANGED found
        /\ UNCHANGED notDiscovery

\* parseKeyAnnouncement(note, ed25519PublicKey?): it reads no transaction, and
\* is applied here before any is confirmed.
ParseKeyAnnouncement ==
    \E n \in AnnouncementNotes, key \in KeyArguments :
        /\ found.by = "none"
        /\ ledger = << >>
        /\ found' = [ by |-> "parseKeyAnnouncement", address |-> "", arg |-> << n, key >>,
                      res |-> parseKeyAnnouncement(n, key) ]
        /\ UNCHANGED ledger
        /\ UNCHANGED notDiscovery

DiscoverEncryptionKey ==
    \E address \in Addresses :
        /\ found.by = "none"
        /\ found' = [ by |-> "discoverEncryptionKey", address |-> address, arg |-> << >>,
                      res |-> discoverEncryptionKey(ledger, address) ]
        /\ UNCHANGED ledger
        /\ UNCHANGED notDiscovery

DiscoverEncryptionKeyFromMessages ==
    \E address \in Addresses :
        /\ found.by = "none"
        /\ found' = [ by |-> "discoverEncryptionKeyFromMessages", address |-> address, arg |-> << >>,
                      res |-> discoverEncryptionKeyFromMessages(ledger, address) ]
        /\ UNCHANGED ledger
        /\ UNCHANGED notDiscovery

FindPublicKey ==
    \E address \in Addresses :
        /\ found.by = "none"
        /\ found' = [ by |-> "MessageIndexer.findPublicKey", address |-> address, arg |-> << >>,
                      res |-> findPublicKey(ledger, address) ]
        /\ UNCHANGED ledger
        /\ UNCHANGED notDiscovery

NextDiscovery ==
    \/ ConfirmTransaction
    \/ PublishKey
    \/ ParseKeyAnnouncement
    \/ DiscoverEncryptionKey
    \/ DiscoverEncryptionKeyFromMessages
    \/ FindPublicKey

SpecDiscovery == InitDiscovery /\ [][NextDiscovery]_vars

(***************************************************************************)
(* Claims about key discovery                                              *)
(***************************************************************************)
\* The signature is the one that the holder of the key made over the message.
SignedUnder(signature, message, key) ==
    \E a \in Accounts :
        /\ key = Ed25519PublicKey(a)
        /\ signature = signEncryptionKey(message, SigningKey(a))

\* The key given to parseKeyAnnouncement verifies the note's signature, or
\* some transaction sent by the searched address carries the reported key
\* followed by a signature over it that verifies against the address's key.
SignatureChecked ==
    IF found.by = "parseKeyAnnouncement"
    THEN /\ Len(found.arg[1]) >= 96
         /\ SignedUnder(SubSeq(found.arg[1], 33, 96), found.res.publicKey, found.arg[2])
    ELSE \E i \in 1..Len(ledger) :
             /\ ledger[i].sender = found.address
             /\ Len(ledger[i].note) >= 96
             /\ Slice(ledger[i].note, 0, 32) = found.res.publicKey
             /\ found.address \in Accounts
             /\ SignedUnder(Slice(ledger[i].note, 32, 96), found.res.publicKey,
                            Ed25519PublicKey(found.address))

FromEnvelope ==
    found.by \in { "discoverEncryptionKeyFromMessages", "MessageIndexer.findPublicKey" }

\* C5 as stated: every discovered key reported with isVerified = true was
\* produced by a successful Ed25519 signature check against the account's
\* key, and a key taken from an envelope's senderPublicKey
\* (discoverEncryptionKeyFromMessages, MessageIndexer.findPublicKey) is
\* always reported with isVerified = false.
C5_VerifiedOnlyBySignature ==
    found.res.outcome = "key" =>
        /\ found.res.isVerified => SignatureChecked
        /\ FromEnvelope => ~found.res.isVerified

\* C5 apart from MessageIndexer.findPublicKey: the claim as stated, for the
\* two discovery functions of the key discovery module.
C5_ExceptMessageIndexer ==
    found.by # "MessageIndexer.findPublicKey" => C5_VerifiedOnlyBySignature

\* C5, the divergence reached: MessageIndexer.findPublicKey reported a key
\* as verified where no transaction of the address carries a signature.
C5_Reached ==
    /\ found.by = "MessageIndexer.findPublicKey"
    /\ found.res.outcome = "key"
    /\ found.res.isVerified
    /\ ~SignatureChecked

(***************************************************************************)
(* Claims about the size of the encoded note                               *)
(***************************************************************************)
\* Bytes of the length that a key, nonce or ciphertext of the envelope has.
FieldBytes(t) == Zeros(ByteLength(t))

\* The note that the codec of the envelope's protocol writes for it.
SealedNote ==
    LET env == sealed.res.env
    IN  IF sealed.kind = "psk"
        THEN encodePSKEnvelope(
                 [ version            |-> env.version,
                   protocolId         |-> env.protocolId,
                   ratchetCounter     |-> Wide(env.ratchetCounter \div 65536,
                                               env.ratchetCounter % 65536),
                   senderPublicKey    |-> FieldBytes(env.senderPublicKey),
                   ephemeralPublicKey |-> FieldBytes(env.ephemeralPublicKey),
                   nonce              |-> FieldBytes(env.nonce),
                   encryptedSenderKey |-> FieldBytes(env.encryptedSenderKey),
                   ciphertext         |-> FieldBytes(env.ciphertext) ])
        ELSE encodeEnvelope(
                 [ version            |-> env.version,
                   protocolId         |-> env.protocolId,
                   senderPublicKey    |-> FieldBytes(env.senderPublicKey),
                   ephemeralPublicKey |-> FieldBytes(env.ephemeralPublicKey),
                   nonce              |-> FieldBytes(env.nonce),
                   encryptedSenderKey |-> FieldBytes(env.encryptedSenderKey),
                   ciphertext         |-> FieldBytes(env.ciphertext) ])

\* C11: every envelope returned by encryptMessage, encryptReply or
\* encryptPSKMessage encodes to a note of at most 1024 bytes, of length
\* header size (126 or 130) + UTF-8 length of the encrypted plaintext + 16.
\* (Stated of the envelope as the encryptor returned it, before any opening.)
C11_NoteWithinLimit ==
    (sealed.kind # "none" /\ sealed.res.ok /\ opened.by = 0) =>
        /\ Len(SealedNote) <= 1024
        /\ Len(SealedNote) =
             (IF sealed.kind = "psk" THEN 130 ELSE 126) + Utf8Size(sealed.plaintext) + 16

\* C11 witness: a reply whose note has exactly 1024 bytes.
C11_Witness ==
    /\ sealed.kind = "reply"
    /\ sealed.res.ok
    /\ Len(SealedNote) = 1024

(***************************************************************************)
(* Claims about the payload classifier                                     *)
(***************************************************************************)
\* The plaintext as decryption recovers it: the UTF-8 decoding of its bytes.
DecodedPlaintext == TextDecode(TextEncode(sealed.plaintext))

StartsWithBrace == Len(sealed.plaintext) >= 1 /\ sealed.plaintext[1] = 123

ParsedPlaintext == JSONParse(DecodedPlaintext)

\* The plaintext starts with '{', parses as JSON and has type "key-publish".
KeyPublishPlaintext ==
    /\ StartsWithBrace
    /\ ParsedPlaintext.ok
    /\ Member(ParsedPlaintext.val, KeyType) = JString(KeyPublishValue)

\* The plaintext starts with '{' and parses as JSON with a string text.
TextPlaintext ==
    /\ StartsWithBrace
    /\ ParsedPlaintext.ok
    /\ Member(ParsedPlaintext.val, KeyText).t = "string"

DecryptedByParty ==
    /\ sealed.kind \in { "standard", "reply" }
    /\ OpenedByParty
    /\ opened.res.kind # "error"

\* C12 as stated: after successful decryption decryptMessage returns null
\* exactly when the plaintext starts with '{', parses as JSON and has type
\* "key-publish"; otherwise, if it parses as JSON with a string text, it
\* returns that text with replyToId and replyToPreview from replyTo.txid and
\* replyTo.preview; otherwise it returns the whole decoded plaintext as text
\* with no reply context.
C12_PayloadClassifier ==
    DecryptedByParty =>
        IF KeyPublishPlaintext THEN opened.res.kind = "null"
        ELSE IF TextPlaintext
        THEN opened.res =
                 Content(Member(ParsedPlaintext.val, KeyText).str,
                         Member(Member(ParsedPlaintext.val, KeyReplyTo), KeyTxid),
                         Member(Member(ParsedPlaintext.val, KeyReplyTo), KeyPreview))
        ELSE opened.res = Content(DecodedPlaintext, JUndefined, JUndefined)

\* C12 for the plaintexts that do not begin with a byte order mark.
C12_ExceptByteOrderMark ==
    (Len(sealed.plaintext) >= 1 /\ sealed.plaintext[1] = 65279) \/ C12_PayloadClassifier

\* C12, the divergence reached: a plaintext that begins with U+FEFF, so not
\* with '{', was read as a JSON payload and only its text member returned.
C12_Reached ==
    /\ DecryptedByParty
    /\ sealed.plaintext = TextBOMJsonText
    /\ opened.res.kind = "content"
    /\ opened.res.text = TextHi

(***************************************************************************)
(* Claims about parseKeyAnnouncement and discoverEncryptionKey             *)
(***************************************************************************)
\* C13: parseKeyAnnouncement never throws; it returns nothing exactly when
\* the note is shorter than 32 bytes; otherwise publicKey is the note's first
\* 32 bytes and isVerified is true exactly when the note has at least 96
\* bytes, an Ed25519 key was supplied, and bytes 32..96 are a valid signature
\* over the first 32 bytes under that key.
C13_ParseKeyAnnouncement ==
    found.by = "parseKeyAnnouncement" =>
        LET n == found.arg[1]
            key == found.arg[2]
        IN  /\ found.res.outcome \in { "key", "undefined" }
            /\ found.res.outcome = "undefined" <=> Len(n) < 32
            /\ Len(n) >= 32 =>
                 /\ found.res.publicKey = SubSeq(n, 1, 32)
                 /\ found.res.isVerified <=>
                        /\ Len(n) >= 96
                        /\ key # NoKey
                        /\ SignedUnder(SubSeq(n, 33, 96), SubSeq(n, 1, 32), key)

\* C13 witness: the announcement signed by another account than the one whose
\* key was supplied came back unverified.
C13_Witness ==
    /\ found.by = "parseKeyAnnouncement"
    /\ found.arg[1] = SignedAnnouncement(EncryptionKeyBytes("SENDER_ADDRESS"), "OTHER_ADDRESS")
    /\ found.arg[2] = Ed25519PublicKey("SENDER_ADDRESS")
    /\ found.res.outcome = "key"
    /\ ~found.res.isVerified

\* The transactions that announce a key of the searched address: sent by it
\* to itself, with a note of at least 32 bytes.
SelfAnnouncements ==
    { i \in 1..Len(ledger) :
        /\ ledger[i].sender = found.address
        /\ ledger[i].receiver = found.address
        /\ ledger[i].hasNote
        /\ Len(ledger[i].note) >= 32 }

FirstSelfAnnouncement ==
    ledger[CHOOSE i \in SelfAnnouncements : \A j \in SelfAnnouncements : i <= j].note

C15_MalformedAddressUnverified ==
    (found.by = "discoverEncryptionKey" /\ found.address = MalformedAddress
        /\ SelfAnnouncements # {}) =>
        /\ found.res.outcome = "key"
        /\ found.res.publicKey = SubSeq(FirstSelfAnnouncement, 1, 32)
        /\ ~found.res.isVerified

\* C15, the divergence reached: the search for a malformed address met a
\* self-announcement and threw.
C15_Reached ==
    /\ found.by = "discoverEncryptionKey"
    /\ found.address = MalformedAddress
    /\ SelfAnnouncements # {}
    /\ found.res = DiscoveryThrew

\* The transactions MessageIndexer.findPublicKey can take a key from: sent by
\* the searched address, with a note that passes isChatMessage and decodes.
ChatMessagesSent ==
    { i \in 1..Len(ledger) :
        /\ ledger[i].sender = found.address
        /\ ledger[i].hasNote
        /\ Len(ledger[i].note) >= 2
        /\ isChatMessage(ledger[i].note)
        /\ decodeEnvelope(ledger[i].note).ok }

FirstChatMessageSent ==
    ledger[CHOOSE i \in ChatMessagesSent : \A j \in ChatMessagesSent : i <= j].note

\* C16: MessageIndexer.findPublicKey returns the senderPublicKey of the first
\* transaction sent by the target address whose note passes isChatMessage and
\* decodes as an envelope; notes that are too short, are no chat messages or
\* do not decode are skipped; when no transaction qualifies it fails with the
\* public-key-not-found error that names the address.
C16_FirstChatMessageSent ==
    found.by = "MessageIndexer.findPublicKey" =>
        IF ChatMessagesSent = {}
        THEN /\ found.res.outcome = "PublicKeyNotFoundError"
             /\ found.res.address = found.address
        ELSE /\ found.res.outcome = "key"
             /\ found.res.publicKey = SubSeq(FirstChatMessageSent, 3, 34)

\* C16 witness: the key came from the second transaction, after a chat note
\* of the target that does not decode.
C16_Witness ==
    /\ found.by = "MessageIndexer.findPublicKey"
    /\ found.address = "SENDER_ADDRESS"
    /\ Len(ledger) >= 2
    /\ ledger[1].sender = "SENDER_ADDRESS"
    /\ ledger[1].note = TruncatedEnvelopeNote
    /\ ChatMessagesSent = { 2 }
    /\ found.res.outcome = "key"
    /\ found.res.publicKey = EncryptionKeyBytes("SENDER_ADDRESS")

\* ---------------------------------------------------------------------------
\* The send queue and its sync manager.

InitQueue ==
    /\ PSKIdle
    /\ CodecIdle
    /\ CryptoIdle
    /\ DiscoveryIdle
    /\ QueueIdle
    /\ SyncIdle
    /\ ExchangeIdle
    /\ StoreIdle
    /\ AeadIdle
    /\ ChannelIdle
    /\ RatchetIdle

\* The next state is what a method left behind when it reached its await.
Becomes(run) ==
    /\ messages' = run.messages
    /\ manager' = run.manager
    /\ sending' = run.sending
    /\ fetching' = run.fetching

\* options.maxRetries: left out, or 0..MaxRetriesOption.
RetryOptions == { NoMaxRetries } \cup 0..MaxRetriesOption

\* SyncManager.queueMessage: enqueue, and processQueue at once when online
\* and idle.  (With the queue full, enqueue throws and nothing changes.)
QueueMessage ==
    \E retries \in RetryOptions, fault \in Faults :
        /\ ~isFull(messages)
        /\ LET queued == enqueue(messages, retries, fault, manager.state)
               run == processQueue(queued, manager.isOnline)
           IN  IF manager.isOnline /\ manager.state = "idle"
               THEN Becomes(Running(manager, run.messages,
                                    sending \cup { [ id |-> run.pending, inSync |-> FALSE ] },
                                    fetching))
               ELSE Becomes(Running(manager, queued, sending, fetching))
        /\ lastCall' = NoCall
        /\ UNCHANGED notQueue

\* SyncManager.queueMessage with the queue full: enqueue throws QUEUE_FULL
\* before anything is changed, and queueMessage passes the error on.
QueueMessageThrows ==
    /\ isFull(messages)
    /\ lastCall' = [ NoCall EXCEPT !.op = "queueMessage", !.error = "QUEUE_FULL" ]
    /\ UNCHANGED << messages, manager, sending, fetching >>
    /\ UNCHANGED notQueue

\* The service call a processQueue loop awaits ends: markSent or markFailed,
\* then the loop goes on to the next queued message, or ends, and the sync()
\* it ran in, if any, goes on to fetch.
SendCompletes(task) ==
    /\ task \in sending
    /\ \E outcome \in Outcomes(messages[task.id]) :
        LET ended == [ messages EXCEPT ![task.id].ended = @ + 1 ]
            marked == IF outcome = "sent" THEN markSent(ended, task.id)
                      ELSE markFailed(ended, task.id, outcome)
            mgr == IF outcome = "sent" THEN [ manager EXCEPT !.conversations = TRUE ]
                   ELSE manager
            run == processQueue(marked, mgr.isOnline)
            fetch == fetchAllConversations(mgr, fetching)
            others == sending \ { task }
        IN  IF run.pending # 0
            THEN Becomes(Running(mgr, run.messages,
                                 others \cup { [ id |-> run.pending, inSync |-> task.inSync ] },
                                 fetching))
            ELSE IF task.inSync
            THEN Becomes(Running(fetch.manager, marked, others, fetch.fetching))
            ELSE Becomes(Running(mgr, marked, others, fetching))
    /\ lastCall' = NoCall
    /\ UNCHANGED notQueue

\* The fetch a sync() awaits ends, and its finally clause sets the state.
FetchCompletes ==
    /\ fetching > 0
    /\ fetching' = fetching - 1
    /\ manager' = setState(manager, IF manager.isOnline THEN "idle" ELSE "offline")
    /\ lastCall' = NoCall
    /\ UNCHANGED << messages, sending >>
    /\ UNCHANGED notQueue

\* The interval callback of start(): a sync when online and idle.
Tick ==
    /\ manager.syncTimer
    /\ manager.isOnline /\ manager.state = "idle"
    /\ Becomes(sync(manager, messages, sending, fetching))
    /\ lastCall' = NoCall
    /\ UNCHANGED notQueue

\* The sync() calls that have not returned: in their processQueue or fetching.
InFlight == fetching + Cardinality({ task \in sending : task.inSync })

\* SyncManager.start.  (Called again with the timer set, it returns at once.)
Start ==
    /\ ~manager.syncTimer
    /\ InFlight < MaxSyncs
    /\ Becomes(sync([ manager EXCEPT !.syncTimer = TRUE ], messages, sending, fetching))
    /\ lastCall' = NoCall
    /\ UNCHANGED notQueue

\* SyncManager.stop.
Stop ==
    /\ manager.syncTimer
    /\ manager' = [ manager EXCEPT !.syncTimer = FALSE ]
    /\ lastCall' = NoCall
    /\ UNCHANGED << messages, sending, fetching >>
    /\ UNCHANGED notQueue

\* How many messages are 'failed'.
FailedCount(msgs) == Cardinality({ i \in 1..Len(msgs) : msgs[i].status = "failed" })

\* SyncManager.setOnline.
SetOnline(online) ==
    /\ (online /\ ~manager.isOnline) => InFlight < MaxSyncs
    /\ LET wasOffline == ~manager.isOnline
           mgr == [ manager EXCEPT !.isOnline = online ]
       IN  IF online /\ wasOffline
           THEN /\ Becomes(sync(setState(mgr, "idle"), retryFailed(messages), sending, fetching))
                /\ lastCall' = [ NoCall EXCEPT !.op = "setOnline",
                                                !.failedBefore = FailedCount(messages),
                                                !.ret = retryFailedCount(messages) ]
           ELSE IF ~online
           THEN /\ manager' = setState(mgr, "offline")
                /\ lastCall' = NoCall
                /\ UNCHANGED << messages, sending, fetching >>
           ELSE /\ manager' = mgr
                /\ lastCall' = NoCall
                /\ UNCHANGED << messages, sending, fetching >>
    /\ UNCHANGED notQueue

\* The processQueue loops there can be.
Tasks == [ id : 1..maxQueueSize, inSync : BOOLEAN ]

NextQueue ==
    \/ QueueMessage
    \/ \E task \in Tasks : SendCompletes(task)
    \/ FetchCompletes
    \/ Tick
    \/ Start
    \/ Stop
    \/ \E online \in BOOLEAN : SetOnline(online)

SpecQueue == InitQueue /\ [][NextQueue]_vars

\* The same manager, with the calls of queueMessage that throw recorded.
NextManager ==
    \/ NextQueue
    \/ QueueMessageThrows

SpecManager == InitQueue /\ [][NextManager]_vars

\* Service calls terminate and the interval timer fires.
SpecQueueFair ==
    /\ SpecQueue
    /\ WF_vars(\E task \in Tasks : SendCompletes(task))
    /\ WF_vars(FetchCompletes)
    /\ WF_vars(Tick)

\* C17 as stated: a queued message whose send failed with a cryptographic or
\* envelope error is not retried automatically: it is never put back to
\* 'queued' for another attempt.
C17_CryptoErrorNotRetried ==
    \A i \in 1..Len(messages) :
        (messages[i].lastError # "" /\ ~isRetryable(messages[i].lastError)) =>
            messages[i].status # "queued"

\* C17, the divergence reached: a message whose content is over the payload
\* limit is back in 'queued' after its send failed, and then is sent again.
C17_Reached ==
    \E i \in 1..Len(messages) :
        /\ messages[i].fault = "MESSAGE_TOO_LARGE"
        /\ messages[i].lastError = "MESSAGE_TOO_LARGE"
        /\ messages[i].status = "sending"
        /\ messages[i].sends = 2

\* C18 as stated: retryFailed puts every 'failed' message back to 'queued' and
\* returns how many it reset, also when setOnline(true) calls it after an
\* offline period.
C18_RetryFailedResetsAll ==
    lastCall.op = "setOnline" =>
        /\ lastCall.ret = lastCall.failedBefore
        /\ \A i \in 1..Len(messages) : messages[i].status # "failed"

\* C18, the divergence reached: setOnline(true) after an offline period left a
\* failed message failed, and retryFailed returned 0.
C18_Reached ==
    /\ lastCall.op = "setOnline"
    /\ lastCall.failedBefore = 1
    /\ lastCall.ret = 0
    /\ \E i \in 1..Len(messages) : messages[i].status = "failed"
    /\ manager.isOnline

Queued(i) == i <= Len(messages) /\ messages[i].status = "queued"

C20_Original ==
    \A i \in 1..Len(messages) : messages[i].sends <= messages[i].maxRetries

\* C20: a message is attempted at most maxRetries times (default 3), and once
\* when maxRetries is 0: after a failed send it is back in 'queued' while
\* fewer than maxRetries attempts were made and 'failed' from then on,
\* onMessageExpired fires exactly once for a failed message and for no other,
\* and a failed message is not attempted again.
C20_BoundedAttempts ==
    \A i \in 1..Len(messages) :
        LET m == messages[i]
        IN  /\ m.sends <= Max(m.maxRetries, 1)
            /\ m.status = "queued" /\ m.lastError # "" => m.sends < m.maxRetries
            /\ m.status = "failed" => m.sends = Max(m.maxRetries, 1)
            /\ m.expired = (IF m.status = "failed" THEN 1 ELSE 0)
            /\ m.status = "failed" => \A task \in sending : task.id # i

\* C20 witness: a message queued without maxRetries failed three times, went
\* back to 'queued' after the first two, has expired, and no loop is running.
C20_Witness ==
    \E i \in 1..Len(messages) :
        /\ messages[i].maxRetries = DEFAULT_MAX_RETRIES
        /\ messages[i].sends = DEFAULT_MAX_RETRIES
        /\ messages[i].status = "failed"
        /\ messages[i].expired = 1
        /\ sending = { }

\* ---------------------------------------------------------------------------
\* C23: the counters that successive advanceSendCounter calls return are
\* 0, 1, 2, ...: each call returns the current sendCounter and increases it
\* by exactly one, so no send counter is returned twice, whatever
\* recordReceive calls come in between.
C23_SendCountersInOrder ==
    /\ \A i \in 1..Len(sentCounters) : sentCounters[i] = i - 1
    /\ state.sendCounter = Len(sentCounters)
    /\ \A i, j \in 1..Len(sentCounters) : i # j => sentCounters[i] # sentCounters[j]

\* C23 witness: MaxSend counters were returned, with counters received between
\* the calls.
C23_Witness ==
    /\ Len(sentCounters) = MaxSend
    /\ pskCall.op = "advanceSendCounter"
    /\ pskCall.before.seenCounters # {}
    /\ pskCall.before.sendCounter > 0

\* The largest counter recorded so far, 0 if none.
LargestRecorded ==
    IF recorded = {} THEN 0 ELSE CHOOSE c \in recorded : \A other \in recorded : other <= c

\* C24: along any sequence of recordReceive and advanceSendCounter calls,
\* peerLastCounter never decreases and equals the largest counter recorded so
\* far (0 if none).
C24_PeerLastCounterMonotone ==
    /\ state.peerLastCounter = LargestRecorded
    /\ pskCall.op # "none" => state.peerLastCounter >= pskCall.before.peerLastCounter

\* C24 witness: a counter below peerLastCounter was recorded after a larger
\* one, and peerLastCounter stayed.
C24_Witness ==
    /\ pskCall.op = "recordReceive"
    /\ pskCall.before.peerLastCounter = COUNTER_WINDOW + 1
    /\ state.peerLastCounter = COUNTER_WINDOW + 1
    /\ state.seenCounters # pskCall.before.seenCounters

\* C25: recordReceive leaves sendCounter unchanged, advanceSendCounter leaves
\* peerLastCounter and seenCounters unchanged, and neither of them nor
\* validateCounter modifies the state object passed in.
C25_FrameAndNoMutation ==
    /\ pskCall.op = "recordReceive" => state.sendCounter = pskCall.before.sendCounter
    /\ pskCall.op = "advanceSendCounter" =>
            /\ state.peerLastCounter = pskCall.before.peerLastCounter
            /\ state.seenCounters = pskCall.before.seenCounters
    /\ pskCall.after = pskCall.before

\* C25 witness: recordReceive returned a state with other seenCounters and
\* another peerLastCounter than the one passed in, after counters were sent.
C25_Witness ==
    /\ pskCall.op = "recordReceive"
    /\ pskCall.before.sendCounter > 0
    /\ state.seenCounters # pskCall.before.seenCounters
    /\ state.peerLastCounter # pskCall.before.peerLastCounter
    /\ pskCall.after = pskCall.before

(***************************************************************************)
(* The ratchet on its own: derivePSKAtCounter for any initial PSK and      *)
(* counter                                                                 *)
(***************************************************************************)
InitRatchet ==
    /\ PSKIdle
    /\ CodecIdle
    /\ CryptoIdle
    /\ DiscoveryIdle
    /\ QueueIdle
    /\ SyncIdle
    /\ ExchangeIdle
    /\ StoreIdle
    /\ AeadIdle
    /\ ChannelIdle
    /\ RatchetIdle

DerivedCounters == 0..MaxCounter

DerivePSKAtCounter ==
    \E p \in 1..MaxPSK, n \in DerivedCounters :
        /\ derived' = [ made |-> TRUE, initialPSK |-> p, counter |-> n,
                        key |-> derivePSKAtCounter(InitialPSK(p), n) ]
        /\ UNCHANGED notRatchet

NextRatchet == DerivePSKAtCounter

SpecRatchet == InitRatchet /\ [][NextRatchet]_vars

\* The session key a derived key was made from, and the session index and the
\* position that went into it.
SessionPSKOf(key) == key.args[1]
SessionIndexOf(key) == SessionPSKOf(key).args[3]
PositionOf(key) == key.args[3]

\* ---------------------------------------------------------------------------
\* C26: for every counter n >= 0, derivePSKAtCounter(initialPSK, n) is
\* derivePositionPSK(deriveSessionPSK(initialPSK, floor(n / 100)), n mod 100):
\* the counters 100k .. 100k + 99 share session k, counter 100 is position 0
\* of session 1, and no two counters map to the same (sessionIndex, position).
C26_TwoLevelRatchet ==
    derived.made =>
        LET n == derived.counter
            initialPSK == InitialPSK(derived.initialPSK)
        IN  /\ derived.key = derivePositionPSK(deriveSessionPSK(initialPSK, n \div 100), n % 100)
            /\ \A k \in 0..(MaxCounter \div 100) :
                    (100 * k <= n /\ n <= 100 * k + 99) =>
                        SessionPSKOf(derived.key) = deriveSessionPSK(initialPSK, k)
            /\ n = 100 => /\ SessionIndexOf(derived.key) = uint32BE(1)
                          /\ PositionOf(derived.key) = uint32BE(0)
            /\ \A m \in DerivedCounters \ {n} :
                    LET other == derivePSKAtCounter(initialPSK, m)
                    IN  << SessionIndexOf(other), PositionOf(other) >> #
                            << SessionIndexOf(derived.key), PositionOf(derived.key) >>

\* C26 witness: the key of the first counter of the second session.
C26_Witness ==
    /\ derived.made
    /\ derived.counter = SESSION_SIZE
    /\ derived.key.op = "hkdf"

(***************************************************************************)
(* An envelope between encryptMessage and decryptMessage: what arrives may *)
(* differ in one field from what was made, and anyone may try to open it   *)
(***************************************************************************)
InitChannel ==
    /\ PSKIdle
    /\ CodecIdle
    /\ CryptoIdle
    /\ DiscoveryIdle
    /\ QueueIdle
    /\ SyncIdle
    /\ ExchangeIdle
    /\ StoreIdle
    /\ RatchetIdle
    /\ ChannelIdle
    /\ AeadIdle

\* Those who may hold an envelope: the identities that exchange messages and
\* one that neither sends nor is sent to.
Holders == 1..(MaxIdentity + 1)

EnvelopeFields ==
    { "senderPublicKey", "ephemeralPublicKey", "nonce", "encryptedSenderKey", "ciphertext" }

\* encryptMessage(m, S.publicKey, R.publicKey)
Send ==
    \E s \in Identities, r \in Identities :
        /\ ~channel.made
        /\ LET res == encryptMessage(TextHi, Identity(s).publicKey, Identity(r).publicKey,
                                     Undefined, 0)
           IN  channel' = [ made |-> TRUE, plaintext |-> TextHi, sender |-> s,
                            recipient |-> r, produced |-> res.env, env |-> res.env,
                            field |-> "none" ]
        /\ UNCHANGED received
        /\ UNCHANGED notChannel

\* One field of the envelope is replaced on the way by the same field of
\* another envelope, one that encryptMessage made later for any two holders.
Replace ==
    \E field \in EnvelopeFields, s \in Holders, r \in Holders :
        /\ channel.made
        /\ channel.field = "none"
        /\ received.by = 0
        /\ LET other == encryptMessage(TextHi, Identity(s).publicKey,
                                       Identity(r).publicKey, Undefined, 2).env
           IN  /\ other[field] # channel.env[field]
               /\ channel' = [ channel EXCEPT !.env = [ channel.env EXCEPT ![field] = other[field] ],
                                              !.field = field ]
        /\ UNCHANGED received
        /\ UNCHANGED notChannel

\* decryptMessage(envelope, who.privateKey, who.publicKey) on what arrived
Receive ==
    \E who \in Holders :
        /\ channel.made
        /\ received.by = 0
        /\ received' = [ by |-> who,
                         res |-> decryptMessage(channel.env, Identity(who).privateKey,
                                                Identity(who).publicKey, Undefined) ]
        /\ UNCHANGED channel
        /\ UNCHANGED notChannel

NextChannel ==
    \/ Send
    \/ Replace
    \/ Receive

SpecChannel == InitChannel /\ [][NextChannel]_vars

ReceivedPlaintext ==
    /\ received.res.kind = "content"
    /\ received.res.text = channel.plaintext

\* ---------------------------------------------------------------------------
\* C28 as stated: decryptMessage succeeds only on an unmodified envelope: if
\* any of senderPublicKey, ephemeralPublicKey, nonce, encryptedSenderKey or
\* ciphertext differs from what encryptMessage produced, decryption fails both
\* for the recipient and for the sender.
C28_Original ==
    (received.by \in { channel.sender, channel.recipient } /\ channel.env # channel.produced)
        => received.res = DecryptError

\* C28 as the code has it: a difference in senderPublicKey, ephemeralPublicKey,
\* nonce or ciphertext makes decryption fail for the recipient and for the
\* sender; a difference in encryptedSenderKey makes it fail for the sender,
\* while a recipient who is not the sender, and so never reads that field,
\* still gets the plaintext.
C28_ModifiedEnvelopeRejected ==
    (received.by \in { channel.sender, channel.recipient } /\ channel.env # channel.produced)
        => IF channel.field = "encryptedSenderKey" /\ received.by # channel.sender
           THEN ReceivedPlaintext
           ELSE received.res = DecryptError

\* C28 witness: the recipient, who is not the sender, got an envelope with
\* another nonce than the one made, and decryptMessage threw.
C28_Witness ==
    /\ channel.sender # channel.recipient
    /\ received.by = channel.recipient
    /\ channel.field = "nonce"
    /\ channel.env.nonce # channel.produced.nonce
    /\ received.res = DecryptError

\* ---------------------------------------------------------------------------
\* C29: opening an envelope sealed from S to R with the key pair of a third
\* identity T (T # S and T # R) fails with a decryption error and never
\* returns plaintext.
C29_ThirdIdentityRejected ==
    (/\ received.by # 0
     /\ received.by \notin { channel.sender, channel.recipient }
     /\ channel.env = channel.produced)
        => received.res = DecryptError

\* C29 witness: S, R and T are three identities, and T's decryptMessage threw.
C29_Witness ==
    /\ received.by # 0
    /\ channel.sender # channel.recipient
    /\ received.by \notin { channel.sender, channel.recipient }
    /\ channel.env = channel.produced
    /\ received.res.kind = "error"

(***************************************************************************)
(* The encryptors called one after another on one random source            *)
(***************************************************************************)
InitAead ==
    /\ PSKIdle
    /\ CodecIdle
    /\ CryptoIdle
    /\ DiscoveryIdle
    /\ QueueIdle
    /\ SyncIdle
    /\ ExchangeIdle
    /\ StoreIdle
    /\ RatchetIdle
    /\ ChannelIdle
    /\ AeadIdle

\* How many values the random source has given so far.
Drawn == IF aeadLog = << >> THEN 0 ELSE aeadLog[Len(aeadLog)].drawn

\* encryptMessage(m, S.publicKey, R.publicKey)
EncryptMessageAgain ==
    \E s \in Identities, r \in Identities :
        /\ Len(aeadLog) < MaxSeals
        /\ LET res == encryptMessage(TextHi, Identity(s).publicKey, Identity(r).publicKey,
                                     Undefined, Drawn)
           IN  aeadLog' = Append(aeadLog, [ by |-> "encryptMessage", uses |-> AeadUses(res.env),
                                            envelope |-> res.env,
                                            drawn |-> Drawn + res.draws ])
        /\ UNCHANGED notAead

\* encryptPSKMessage(m, S.publicKey, R.publicKey, derivePSKAtCounter(psk, 0), 0)
EncryptPSKMessageAgain ==
    \E s \in Identities, r \in Identities, p \in PSKs :
        /\ Len(aeadLog) < MaxSeals
        /\ LET res == encryptPSKMessage(TextHi, Identity(s).publicKey, Identity(r).publicKey,
                                        derivePSKAtCounter(InitialPSK(p), 0), 0, Drawn)
           IN  aeadLog' = Append(aeadLog, [ by |-> "encryptPSKMessage",
                                            uses |-> AeadUses(res.env),
                                            envelope |-> res.env,
                                            drawn |-> Drawn + res.draws ])
        /\ UNCHANGED notAead

NextAead ==
    \/ EncryptMessageAgain
    \/ EncryptPSKMessageAgain

SpecAead == InitAead /\ [][NextAead]_vars

\* The AEAD encryptions made so far: the k-th of call i is << i, k >>.
Encryptions == { << i, k >> : i \in 1..Len(aeadLog), k \in 1..2 }
UseOf(e) == aeadLog[e[1]].uses[e[2]]

\* ---------------------------------------------------------------------------
\* C30 as stated: every ChaCha20-Poly1305 encryption performed by
\* encryptMessage and encryptPSKMessage uses a nonce that no other AEAD
\* encryption call uses.
C30_Original ==
    \A e1, e2 \in Encryptions : e1 # e2 => UseOf(e1).nonce # UseOf(e2).nonce

\* C30 as the code has it: each encryptMessage or encryptPSKMessage call
\* draws one nonce and uses it for both of its AEAD encryptions, under two
\* different keys; no other call uses that nonce, and no two AEAD encryptions
\* use the same key with the same nonce.
C30_NoncePerEnvelope ==
    /\ \A i \in 1..Len(aeadLog) :
            /\ aeadLog[i].uses[1].nonce = aeadLog[i].uses[2].nonce
            /\ aeadLog[i].uses[1].key # aeadLog[i].uses[2].key
    /\ \A e1, e2 \in Encryptions :
            e1[1] # e2[1] => UseOf(e1).nonce # UseOf(e2).nonce
    /\ \A e1, e2 \in Encryptions : e1 # e2 => UseOf(e1) # UseOf(e2)

\* C30 witness: encryptMessage was called first and encryptPSKMessage last, on
\* the same random source.
C30_Witness ==
    /\ Len(aeadLog) = MaxSeals
    /\ aeadLog[1].by = "encryptMessage"
    /\ aeadLog[MaxSeals].by = "encryptPSKMessage"
    /\ aeadLog[1].uses[1].nonce.op = "random"

\* C31: any two distinct invocations of encryptMessage or encryptPSKMessage
\* produce envelopes with different ephemeral public keys and different
\* nonces (the random source never giving a value twice).
C31_FreshEphemeralAndNonce ==
    \A i, j \in 1..Len(aeadLog) :
        i # j =>
            /\ aeadLog[i].envelope.ephemeralPublicKey # aeadLog[j].envelope.ephemeralPublicKey
            /\ aeadLog[i].envelope.nonce # aeadLog[j].envelope.nonce

\* C31 witness: encryptMessage was called twice by one sender, and each
\* envelope carries the public key of an ephemeral key drawn for it.
C31_Witness ==
    /\ Len(aeadLog) >= 2
    /\ aeadLog[1].by = "encryptMessage"
    /\ aeadLog[2].by = "encryptMessage"
    /\ aeadLog[1].envelope.senderPublicKey = aeadLog[2].envelope.senderPublicKey
    /\ aeadLog[1].envelope.ciphertext.args[1] # aeadLog[2].envelope.ciphertext.args[1]
    /\ \A i \in 1..2 : aeadLog[i].envelope.ephemeralPublicKey.op = "x25519-public"

(***************************************************************************)
(* A Conversation, a storage cache and a message cache, each starting      *)
(* empty; a run works on one of the three                                  *)
(***************************************************************************)
InitStore ==
    /\ PSKIdle
    /\ CodecIdle
    /\ CryptoIdle
    /\ DiscoveryIdle
    /\ QueueIdle
    /\ SyncIdle
    /\ ExchangeIdle
    /\ RatchetIdle
    /\ ChannelIdle
    /\ AeadIdle
    /\ StoreIdle

Uses(object) == lastInsert.on \in { "none", object }

\* conversation.append(message)
ConversationAppend ==
    \E message \in AllMessages :
        /\ Uses("Conversation")
        /\ conversation' = append(conversation, message).messages
        /\ lastInsert' = [ on |-> "Conversation", op |-> "append",
                           before |-> conversation, batch |-> << message >>,
                           returned |-> append(conversation, message).returned ]
        /\ UNCHANGED <<storage, cache>>
        /\ UNCHANGED notStore

\* conversation.merge(messages)
ConversationMerge ==
    \E batch \in Batches :
        /\ Uses("Conversation")
        /\ conversation' = merge(conversation, batch).messages
        /\ lastInsert' = [ on |-> "Conversation", op |-> "merge",
                           before |-> conversation, batch |-> batch,
                           returned |-> merge(conversation, batch).returned ]
        /\ UNCHANGED <<storage, cache>>
        /\ UNCHANGED notStore

\* storage cache: store(messages, participant)
StorageStore ==
    \E batch \in Batches, participant \in Participants :
        /\ Uses("storage")
        /\ storage' = [ storage EXCEPT ![participant] = storeMessages(storage[participant], batch) ]
        /\ lastInsert' = [ NoInsert EXCEPT !.on = "storage" ]
        /\ UNCHANGED <<conversation, cache>>
        /\ UNCHANGED notStore

\* message cache: store(participant, message)
CacheStore ==
    \E message \in AllMessages, participant \in Participants :
        /\ Uses("cache")
        /\ cache' = store(cache, participant, message)
        /\ lastInsert' = [ NoInsert EXCEPT !.on = "cache" ]
        /\ UNCHANGED <<conversation, storage>>
        /\ UNCHANGED notStore

\* message cache: storeMany(participant, messages)
CacheStoreMany ==
    \E batch \in Batches, participant \in Participants :
        /\ Uses("cache")
        /\ cache' = storeMany(cache, participant, batch, 1)
        /\ lastInsert' = [ NoInsert EXCEPT !.on = "cache" ]
        /\ UNCHANGED <<conversation, storage>>
        /\ UNCHANGED notStore

\* message cache: clear(participant)
CacheClear ==
    \E participant \in Participants :
        /\ Uses("cache")
        /\ cache' = clear(cache, participant)
        /\ lastInsert' = [ NoInsert EXCEPT !.on = "cache" ]
        /\ UNCHANGED <<conversation, storage>>
        /\ UNCHANGED notStore

\* message cache: clearAll()
CacheClearAll ==
    /\ Uses("cache")
    /\ cache' = clearAll(cache)
    /\ lastInsert' = [ NoInsert EXCEPT !.on = "cache" ]
    /\ UNCHANGED <<conversation, storage>>
    /\ UNCHANGED notStore

NextStore ==
    \/ ConversationAppend
    \/ ConversationMerge
    \/ StorageStore
    \/ CacheStore
    \/ CacheStoreMany
    \/ CacheClear
    \/ CacheClearAll

SpecStore == InitStore /\ [][NextStore]_vars

NoSharedId(list) == \A i, j \in 1..Len(list) : i # j => list[i].id # list[j].id
InTimestampOrder(list) ==
    \A i, j \in 1..Len(list) : i < j => list[i].timestamp <= list[j].timestamp

\* ---------------------------------------------------------------------------
\* C27: message insertion is idempotent per message id: starting from an
\* empty Conversation or message cache, after any sequence of append, merge
\* or store calls no two stored messages of a participant share an id, the
\* messages (of the message cache: as retrieve gives them) are in
\* non-decreasing timestamp order, and merge returns exactly the number of
\* messages whose id was not already present, an id that comes more than once
\* in the batch counted once (0 when the same batch is merged again).
C27_InsertionIdempotent ==
    /\ NoSharedId(conversation) /\ InTimestampOrder(conversation)
    /\ \A p \in Participants :
            /\ NoSharedId(storage[p]) /\ InTimestampOrder(storage[p])
            /\ NoSharedId(cache.conversations[p])
            /\ NoSharedId(retrieve(cache, p)) /\ InTimestampOrder(retrieve(cache, p))
    /\ lastInsert.op = "merge" =>
            /\ lastInsert.returned = Cardinality(Ids(lastInsert.batch) \ Ids(lastInsert.before))
            /\ Len(conversation) = Len(lastInsert.before) + lastInsert.returned
            /\ merge(conversation, lastInsert.batch).returned = 0
            /\ merge(conversation, lastInsert.batch).messages = conversation
    /\ lastInsert.op = "append" =>
            lastInsert.returned = Cardinality(Ids(lastInsert.batch) \ Ids(lastInsert.before))

\* C27 witness: a batch that holds one id twice and an id already there was
\* merged into a Conversation, and one message was added, before an older one.
C27_Witness ==
    /\ lastInsert.op = "merge"
    /\ Len(lastInsert.batch) = 2
    /\ lastInsert.batch[1].id = lastInsert.batch[2].id
    /\ lastInsert.before # << >>
    /\ lastInsert.returned = 1
    /\ conversation[1].id = lastInsert.batch[1].id

(***************************************************************************)
(* PSK exchange URIs made by createPSKExchangeURI or come from elsewhere,  *)
(* and read by parsePSKExchangeURI                                         *)
(***************************************************************************)
InitExchange ==
    /\ PSKIdle
    /\ CodecIdle
    /\ CryptoIdle
    /\ DiscoveryIdle
    /\ QueueIdle
    /\ SyncIdle
    /\ RatchetIdle
    /\ ChannelIdle
    /\ AeadIdle
    /\ StoreIdle
    /\ ExchangeIdle

\* Addresses: 58 characters of A-Z 2-7, and a string that needs escaping.
Base32Char(v) == IF v < 26 THEN 65 + v ELSE 50 + (v - 26)
TextNeedsEscape == << 97, 32, 98, 38, 99, 61, 100, 43, 101, 37, 52, 49, 47, 233, 63, 35 >>
ExchangeAddresses ==
    { [ i \in 1..58 |-> Base32Char((i * 7 + seed * 11) % 32) ] : seed \in 0..MaxSeed }
        \cup { TextNeedsEscape }

\* Keys of 32 bytes; those of 255 and of 251 give '/' and '+' in base64.
ExchangePSKs ==
    { Ramp(32, seed) : seed \in 0..MaxSeed } \cup { Repeat(255, 32), Repeat(251, 32) }

TextMyChat == << 77, 121, 32, 67, 104, 97, 116 >>
TextMyChatFriends == << 77, 121, 32, 67, 104, 97, 116, 32, 38, 32, 70, 114, 105, 101, 110, 100, 115, 33 >>
ExchangeLabels ==
    { NoLabel, SomeLabel(TextEmpty), SomeLabel(TextMyChat), SomeLabel(TextMyChatFriends),
      SomeLabel(TextNeedsEscape), SomeLabel(TextEmoji), SomeLabel(TextBOM),
      SomeLabel(TextLoneSurrogate) }

\* URIs that come from elsewhere.
TextTest == << 84, 69, 83, 84 >>
GoodPsk == toBase64Url(Ramp(32, 0))
WithAddr(rest) == URI_PREFIX \o LitAddrEq \o TextTest \o rest
ReplacedAt(str, i, c) == [ str EXCEPT ![i] = c ]
GivenURIs ==
    { << 104, 116, 116, 112, 115, 58, 47, 47, 101, 120, 97, 109, 112, 108, 101, 46, 99, 111, 109 >>,
      << 65, 76, 71, 79, 67, 72, 65, 84, 45, 80, 83, 75, 58, 47, 47, 118, 49, 63 >> \o LitAddrEq \o TextTest \o LitPskEq \o GoodPsk,
      URI_PREFIX \o Tail(LitPskEq) \o GoodPsk,
      WithAddr(<< >>),
      WithAddr(LitPskEq),
      URI_PREFIX \o LitAddrEq \o LitPskEq \o GoodPsk,
      WithAddr(LitPskEq \o << 65, 65, 65, 65 >>),
      WithAddr(LitPskEq \o toBase64Url(Ramp(31, 0))),
      WithAddr(LitPskEq \o toBase64Url(Ramp(33, 0))),
      WithAddr(LitPskEq \o SubSeq(GoodPsk, 1, 41)),
      WithAddr(LitPskEq \o ReplacedAt(GoodPsk, 5, 42)),
      WithAddr(LitPskEq \o GoodPsk \o << 61 >>),
      WithAddr(LitPskEq \o StripPadding(btoa(Repeat(255, 32)))),
      WithAddr(LitPskEq \o SubSeq(GoodPsk, 1, 20) \o << 43 >> \o SubSeq(GoodPsk, 21, 43)),
      WithAddr(LitPskEq \o GoodPsk \o << 38, 102, 111, 111, 61, 98, 97, 114, 38 >>),
      WithAddr(LitPskEq \o GoodPsk \o << 38, 108, 97, 98, 101, 108, 61, 77, 121, 37, 50, 48, 67, 104, 97, 116 >>),
      WithAddr(LitPskEq \o GoodPsk \o LitLabelEq),
      WithAddr(<< 38, 97, 100, 100, 114, 61, 84, 87, 79 >> \o LitPskEq \o GoodPsk),
      URI_PREFIX \o << 63 >> \o LitAddrEq \o TextTest \o LitPskEq \o GoodPsk,
      URI_PREFIX \o Tail(LitPskEq) \o GoodPsk \o << 38 >> \o LitAddrEq \o TextTest }

\* createPSKExchangeURI(address, psk, label)
CreatePSKExchangeURI ==
    \E address \in ExchangeAddresses, psk \in ExchangePSKs, label \in ExchangeLabels :
        /\ exchange.from = "none"
        /\ exchange' = [ NoExchange EXCEPT !.from = "created", !.address = address,
                                           !.psk = psk, !.label = label,
                                           !.uri = createPSKExchangeURI(address, psk, label) ]
        /\ UNCHANGED notExchange

\* A URI is handed over, from a QR code or a link.
ReceiveURI ==
    \E uri \in GivenURIs :
        /\ exchange.from = "none"
        /\ exchange' = [ NoExchange EXCEPT !.from = "given", !.uri = Gave(uri) ]
        /\ UNCHANGED notExchange

\* parsePSKExchangeURI(uri)
ParsePSKExchangeURI ==
    /\ exchange.uri.ok
    /\ ~exchange.parsed
    /\ exchange' = [ exchange EXCEPT !.parsed = TRUE,
                                     !.result = parsePSKExchangeURI(exchange.uri.str) ]
    /\ UNCHANGED notExchange

NextExchange ==
    \/ CreatePSKExchangeURI
    \/ ReceiveURI
    \/ ParsePSKExchangeURI

SpecExchange == InitExchange /\ [][NextExchange]_vars

SameExchange(label) ==
    /\ exchange.result.ok
    /\ exchange.result.address = exchange.address
    /\ exchange.result.psk = exchange.psk
    /\ exchange.result.label = label

\* ---------------------------------------------------------------------------
\* C21 as stated: for every address, 32-byte PSK and optional label,
\* parsePSKExchangeURI(createPSKExchangeURI(address, psk, label)) returns the
\* same address, the same 32 PSK bytes and the same label (undefined when
\* none was given).
C21_Original ==
    exchange.from = "created" =>
        /\ exchange.uri.ok
        /\ exchange.parsed => SameExchange(exchange.label)

\* C21 as the code has it: the round trip holds for every address, 32-byte
\* PSK and label that is absent or a non-empty string without unpaired
\* surrogates. An empty label is not written and comes back as undefined; with
\* an unpaired surrogate in the label createPSKExchangeURI throws.
C21_ExchangeRoundTrip ==
    exchange.from = "created" =>
        /\ exchange.uri.ok <=>
              (exchange.label.given => IsWellFormed(exchange.label.text))
        /\ exchange.parsed =>
              SameExchange(IF exchange.label.text = << >> THEN NoLabel ELSE exchange.label)

\* C21 witness: an address that needs escaping, a key whose base64 has '/' and
\* '+', and a label with '&' in it came back as they were.
C21_Witness ==
    /\ exchange.from = "created"
    /\ exchange.parsed
    /\ exchange.address = TextNeedsEscape
    /\ exchange.psk = Repeat(251, 32)
    /\ exchange.label = SomeLabel(TextMyChatFriends)
    /\ exchange.result.label = SomeLabel(TextMyChatFriends)

\* A psk parameter that is base64url of 32 bytes: 43 characters of
\* A-Z a-z 0-9 - _, with or without the '=' that pads them to 44.
IsBase64UrlOf32(param) ==
    /\ Len(param) - Len(StripPadding(param)) <= 1
    /\ Len(StripPadding(param)) = 43
    /\ \A i \in 1..43 :
          \/ Base64Value(param[i]) >= 0 /\ param[i] \notin { 43, 47 }
          \/ param[i] \in { 45, 95 }

ExchangeParams ==
    URLSearchParams(SubSeq(exchange.uri.str, Len(URI_PREFIX) + 1, Len(exchange.uri.str)))
Missing(name) ==
    ParamsGet(ExchangeParams, name).null \/ ParamsGet(ExchangeParams, name).value = << >>

\* ---------------------------------------------------------------------------
\* C22: parsePSKExchangeURI fails when the URI does not start with
\* algochat-psk://v1?, when addr or psk is missing, or when psk does not
\* decode from base64url to exactly 32 bytes; otherwise it succeeds, with
\* label optional and any other query parameters ignored.
C22_ParseRejectsExactly ==
    exchange.parsed =>
        IF \/ ~StartsWithAt(exchange.uri.str, 1, URI_PREFIX)
           \/ Missing(NameAddr)
           \/ Missing(NamePsk)
           \/ ~IsBase64UrlOf32(ParamsGet(ExchangeParams, NamePsk).value)
        THEN ~exchange.result.ok
        ELSE /\ exchange.result.ok
             /\ exchange.result.address = ParamsGet(ExchangeParams, NameAddr).value
             /\ Len(exchange.result.psk) = 32
             /\ toBase64Url(exchange.result.psk) =
                    StripPadding(ParamsGet(ExchangeParams, NamePsk).value)
             /\ exchange.result.label.given = ~ParamsGet(ExchangeParams, NameLabel).null
             /\ exchange.result.label.text = ParamsGet(ExchangeParams, NameLabel).value

\* Characters that base64url does not have but fromBase64Url lets through:
\* '/' and '+' of base64, and the white space that atob drops ('+' in a query
\* is a space).
Lenient(param) == \E i \in 1..Len(param) : param[i] \in { 47, 43, 32, 9, 10, 12, 13 }

\* C22 for the psk parameters that hold none of these characters.
C22_ExceptLenientAlphabet ==
    (exchange.parsed /\ ~Missing(NamePsk) /\ Lenient(ParamsGet(ExchangeParams, NamePsk).value))
        \/ C22_ParseRejectsExactly

\* C22, the divergence reached: a psk parameter with '/' in it, so not
\* base64url, was taken as a key of 32 bytes.
C22_Reached ==
    /\ exchange.from = "given"
    /\ exchange.parsed
    /\ \E i \in 1..Len(ParamsGet(ExchangeParams, NamePsk).value) :
            ParamsGet(ExchangeParams, NamePsk).value[i] = 47
    /\ exchange.result.ok
    /\ exchange.result.psk = Repeat(255, 32)

\* ---------------------------------------------------------------------------
\* The sync manager under interleaving.

\* The service calls for message i that have begun and not yet ended.
SendsInFlight(i) == messages[i].sends - messages[i].ended

AwaitingDelivery ==
    { i \in 1..Len(messages) : messages[i].status \in { "queued", "sending" } }

\* C34 as stated: only messages still awaiting delivery count against the
\* queue capacity: queueMessage throws QUEUE_FULL only when maxQueueSize
\* messages are 'queued' or 'sending', so sent messages never block new ones.
C34_OnlyPendingCount ==
    lastCall.error = "QUEUE_FULL" => Cardinality(AwaitingDelivery) = maxQueueSize

\* C34, the divergence reached: queueMessage threw QUEUE_FULL with every
\* message of the queue sent and none awaiting delivery.
C34_Reached ==
    /\ lastCall.op = "queueMessage"
    /\ lastCall.error = "QUEUE_FULL"
    /\ Len(messages) = maxQueueSize
    /\ \A i \in 1..Len(messages) : messages[i].status = "sent"
    /\ AwaitingDelivery = { }

\* C35 as stated: at most one sync() runs at a time when syncs are started
\* only by start() and setOnline(): the state is 'syncing' for as long as any
\* sync is in progress, so the interval timer never starts a sync that
\* overlaps another.
C35_OneSyncAtATime ==
    /\ InFlight <= 1
    /\ InFlight > 0 => manager.state = "syncing"

\* C35, the divergence reached: two syncs are in progress at once, one
\* awaiting a send and one its fetch, with the timer of start() set.
C35_Reached ==
    /\ InFlight = 2
    /\ fetching = 1
    /\ \E task \in sending : task.inSync
    /\ manager.isOnline
    /\ manager.syncTimer

\* C36: after every step of any interleaving of start, stop, setOnline, sync,
\* queueMessage and their asynchronous completions, the state is 'offline'
\* exactly when the manager has been set offline (isOnline is false).
C36_OfflineIffSetOffline ==
    (manager.state = "offline") <=> ~manager.isOnline

\* C36 witness: the manager was set offline while a sync awaited a send, that
\* send has ended and the sync has returned through its finally clause with
\* the manager still offline.
C36_Witness ==
    /\ ~manager.isOnline
    /\ manager.state = "offline"
    /\ InFlight = 0
    /\ sending = { }
    /\ \E i \in 1..Len(messages) :
        /\ messages[i].queuedWhile = "syncing"
        /\ messages[i].ended = 1

\* The service calls made for message i so far, none for a message to come.
SendsOf(msgs, i) == IF i <= Len(msgs) THEN msgs[i].sends ELSE 0

\* C37: while the manager is offline no send is started: every call of
\* service.sendMessage or sendReply begins at a moment the manager is online.
C37_NoSendWhileOffline ==
    [][\A i \in 1..maxQueueSize :
        SendsOf(messages', i) > SendsOf(messages, i) => manager'.isOnline]_vars

\* C37 witness: the manager is offline, a loop has ended after a send that
\* was in flight when the manager went offline, and a message queued behind
\* it waits, never attempted.
C37_Witness ==
    /\ ~manager.isOnline
    /\ sending = { }
    /\ Len(messages) = 2
    /\ messages[1].ended = 1
    /\ messages[2].status = "queued"
    /\ messages[2].sends = 0
    /\ messages[2].queuedWhile # "offline"

\* C39 as stated: messages are sent in the order they were queued: if a was
\* enqueued before b, b is never successfully sent before a has been sent or
\* has permanently failed, under any interleaving of processQueue loops.
C39_SentInQueueOrder ==
    \A a, b \in 1..Len(messages) :
        (a < b /\ messages[b].status = "sent") =>
            messages[a].status \in { "sent", "failed" }

\* C39, the divergence reached: the second message is sent while the first,
\* queued before it, is still in flight at its first attempt.
C39_Reached ==
    /\ Len(messages) = 2
    /\ messages[2].status = "sent"
    /\ messages[1].status = "sending"
    /\ messages[1].sends = 1
    /\ SendsInFlight(1) = 1

\* ---------------------------------------------------------------------------
\* The message cache's index.

\* The messages the cache holds: one for each place in a participant's
\* retrieve().
Held == UNION { { << p, i >> : i \in 1..Len(retrieve(cache, p)) } : p \in Participants }

\* C40 as stated: in the synchronous InMemoryMessageCache, after any sequence
\* of store, storeMany, clear and clearAll calls, has(id) is true exactly when
\* some participant's retrieve() contains a message with that id, get(id) then
\* returns it, and messageCount is the number of messages held across
\* participants.
C40_IndexAgreesWithConversations ==
    /\ \A id \in MessageIds :
        /\ has(cache, id) <=> \E p \in Participants : id \in Ids(retrieve(cache, p))
        /\ has(cache, id) =>
            \E held \in Held : retrieve(cache, held[1])[held[2]] = get(cache, id)
    /\ messageCount(cache) = Cardinality(Held)

\* C40, the divergence reached: one participant's retrieve() holds a message
\* whose id has() denies and get() does not find, and messageCount is 0.
C40_Reached ==
    /\ lastInsert.on = "cache"
    /\ \E p \in Participants, id \in MessageIds :
        /\ id \in Ids(retrieve(cache, p))
        /\ ~has(cache, id)
        /\ get(cache, id) = NoMessage
    /\ messageCount(cache) = 0

\* ---------------------------------------------------------------------------
\* The conversation with one participant, synced while messages get confirmed.

InitSync ==
    /\ PSKIdle
    /\ CodecIdle
    /\ CryptoIdle
    /\ DiscoveryIdle
    /\ QueueIdle
    /\ SyncIdle
    /\ ExchangeIdle
    /\ StoreIdle
    /\ AeadIdle
    /\ ChannelIdle
    /\ RatchetIdle

\* The round of the last message confirmed.
LastRound == IF indexed = << >> THEN 1 ELSE indexed[Len(indexed)].round

\* A chat message with the participant is confirmed, in the round of the
\* last one or in a later round, and the indexer has it.
Confirm ==
    \E round \in Rounds :
        /\ Len(indexed) < MaxIndexed
        /\ round >= LastRound
        /\ indexed' = Append(indexed, IndexedMessage(Len(indexed) + 1, round))
        /\ UNCHANGED << synced, fetchCalls, listener >>
        /\ UNCHANGED notSync

\* SyncManager.syncConversation up to its await: the indexer is asked for the
\* messages from lastFetchedRound on.
SyncConversation(f) ==
    /\ ~fetchCalls[f].pending
    /\ fetchCalls' = [ fetchCalls EXCEPT ![f] =
                      [ pending  |-> TRUE,
                        messages |-> fetchMessages(indexed, synced.lastFetchedRound) ] ]
    /\ UNCHANGED << indexed, synced, listener >>
    /\ UNCHANGED notSync

\* fetchMessages returns and syncConversation runs to its end.
FetchReturns(f) ==
    /\ fetchCalls[f].pending
    /\ LET done == syncConversation(synced, fetchCalls[f].messages, listener)
       IN  /\ synced' = done.synced
           /\ listener' = done.listener
    /\ fetchCalls' = [ fetchCalls EXCEPT ![f] = NoFetch ]
    /\ UNCHANGED indexed
    /\ UNCHANGED notSync

NextSync ==
    \/ Confirm
    \/ \E f \in Fetchers : SyncConversation(f)
    \/ \E f \in Fetchers : FetchReturns(f)

SpecSync == InitSync /\ [][NextSync]_vars

\* C38 as stated: onMessagesReceived is invoked only when syncConversation
\* added at least one message that was not already in the conversation, the
\* messages passed to it are exactly the newly added ones, and no message is
\* reported to the listener twice.
C38_ReportsExactlyTheNew ==
    /\ \A k \in 1..Len(listener) :
        /\ listener[k].added # { }
        /\ Ids(listener[k].messages) = listener[k].added
    /\ \A j, k \in 1..Len(listener) :
        j # k => Ids(listener[j].messages) \cap Ids(listener[k].messages) = { }

\* C38, the divergence reached: the second onMessagesReceived call was made
\* for one new message and passed the message of the first call along with
\* it, and no syncConversation call is pending.
C38_Reached ==
    /\ Len(listener) = 2
    /\ listener[1].messages = << IndexedMessage(1, 1) >>
    /\ listener[2].added = { 2 }
    /\ Ids(listener[2].messages) = { 1, 2 }
    /\ \A f \in Fetchers : ~fetchCalls[f].pending
    /\ synced.lastFetchedRound = 2

\* ---------------------------------------------------------------------------
\* Key discovery for an account that published its key.

\* The account's key was published with AlgorandService.publishKey.
Published(address) ==
    \E i \in 1..Len(ledger) : ledger[i] = publishKey(address)

\* C32 as stated: for an account whose key was published with
\* AlgorandService.publishKey, discoverEncryptionKey returns that account's
\* X25519 encryption public key or returns nothing; it never returns a
\* different 32-byte value as the account's key.
C32_PublishedKeyOrNothing ==
    (found.by = "discoverEncryptionKey" /\ Published(found.address)) =>
        \/ found.res.outcome = "undefined"
        \/ /\ found.res.outcome = "key"
           /\ found.res.publicKey = EncryptionKeyBytes(found.address)

\* C32, the divergence reached: with the publishKey transaction the only
\* one, discoverEncryptionKey returns the two header bytes of the envelope
\* followed by the first 30 bytes of the account's key.
C32_Reached ==
    /\ found.by = "discoverEncryptionKey"
    /\ found.address = "SENDER_ADDRESS"
    /\ ledger = << publishKey("SENDER_ADDRESS") >>
    /\ found.res.outcome = "key"
    /\ ~found.res.isVerified
    /\ found.res.publicKey = << VERSION, PROTOCOL_ID >>
                             \o Slice(EncryptionKeyBytes("SENDER_ADDRESS"), 0, 30)
    /\ found.res.publicKey # EncryptionKeyBytes("SENDER_ADDRESS")

=============================================================================

